---- MODULE Spec2Model ----
(***************************************************************************)
(* Evidence localization of sourcemapr's dashboard: the parsed-text match  *)
(* cascade (highlightTextInContent of DocumentViewer and of SourceSidebar),*)
(* the rendered-tree and PDF text-layer adapters, and the highlight        *)
(* session kept in the zustand store.                                      *)
(*                                                                         *)
(* A JavaScript string is a sequence of one-character strings; offsets are *)
(* 0-based as in the source, Slice(s, a, b) is s.slice(a, b).              *)
(***************************************************************************)
EXTENDS Integers, Sequences, FiniteSets, TLC

\* ------------------------------------------------------------------------
\* Characters and strings
\* ------------------------------------------------------------------------

UpperAZ == <<"A","B","C","D","E","F","G","H","I","J","K","L","M","N","O","P","Q","R","S","T","U","V","W","X","Y","Z">>

LowerAZ == <<"a","b","c","d","e","f","g","h","i","j","k","l","m","n","o","p","q","r","s","t","u","v","w","x","y","z">>

UpperSet == {UpperAZ[i] : i \in 1..26}

LowerSet == {LowerAZ[i] : i \in 1..26}

DigitSet == {"0","1","2","3","4","5","6","7","8","9"}

LowerOf == [c \in UpperSet |-> LowerAZ[CHOOSE i \in 1..26 : UpperAZ[i] = c]]

\* String.prototype.toLowerCase, one character
ToLowerChar(c) == IF c \in UpperSet THEN LowerOf[c] ELSE c

\* a sequence given by a rule, as a tuple of its values
Tuple(f) == f \o << >>

ToLower(s) == Tuple([i \in 1..Len(s) |-> ToLowerChar(s[i])])

\* the regular expression class \s
IsSpace(c) == c \in {" ", "\n", "\r", "\t"}

\* the class [a-z0-9]
IsLowerAlnum(c) == c \in LowerSet \cup DigitSet

\* the regular expression class \w
IsWordChar(c) == c \in LowerSet \cup UpperSet \cup DigitSet \cup {"_"}

Min2(a, b) == IF a < b THEN a ELSE b

Max2(a, b) == IF a > b THEN a ELSE b

SetMin(S) == CHOOSE x \in S : \A y \in S : x <= y

\* the least q in lo..hi with P(q), or -1
First(lo, hi, P(_)) ==
  LET q == CHOOSE c \in lo..(Max2(lo - 1, hi) + 1) : (c > hi \/ P(c)) /\ \A r \in lo..(c - 1) : ~P(r)
  IN  IF q > hi THEN -1 ELSE q

\* the greatest q in lo..hi with P(q), or -1
Last(lo, hi, P(_)) ==
  LET d == First(lo, hi, LAMBDA c : P(hi + lo - c))
  IN  IF d = -1 THEN -1 ELSE hi + lo - d


\* s.slice(a, b) for a >= 0 and b >= 0
Slice(s, a, b) == SubSeq(s, Min2(a, Len(s)) + 1, Min2(b, Len(s)))

\* s.slice(a)
SliceFrom(s, a) == Slice(s, a, Len(s))

\* whether w occurs in s at offset p
OccursAt(s, w, p) == p >= 0 /\ p + Len(w) <= Len(s) /\ \A k \in 1..Len(w) : s[p + k] = w[k]

\* s.indexOf(w, from): the first offset >= from where w occurs, or -1
IndexOfFrom(s, w, from) == First(from, Len(s) - Len(w), LAMBDA p : OccursAt(s, w, p))

IndexOf(s, w) == IndexOfFrom(s, w, 0)

\* s.includes(w)
Includes(s, w) == \E p \in 0..(Len(s) - Len(w)) : OccursAt(s, w, p)

\* s.trim()
Trim(s) ==
  LET a == First(1, Len(s), LAMBDA i : ~IsSpace(s[i]))
  IN  IF a = -1 THEN << >> ELSE SubSeq(s, a, Last(1, Len(s), LAMBDA i : ~IsSpace(s[i])))

\* the i in 1..n with P(i), in ascending order
Positions(n, P(_)) == SelectSeq([i \in 1..n |-> i], P)

\* s.replace(/\s+/g, ' ')
CollapseWhitespace(s) ==
  LET kept == Positions(Len(s), LAMBDA i : ~(IsSpace(s[i]) /\ i > 1 /\ IsSpace(s[i - 1])))
  IN  Tuple([k \in 1..Len(kept) |-> IF IsSpace(s[kept[k]]) THEN " " ELSE s[kept[k]]])

\* s.split(/\s+/) without its empty pieces: the maximal runs of non-space characters
SplitWords(s) ==
  LET starts == Positions(Len(s), LAMBDA i : ~IsSpace(s[i]) /\ (i = 1 \/ IsSpace(s[i - 1])))
      endOf(i) == First(i, Len(s), LAMBDA j : j = Len(s) \/ IsSpace(s[j + 1]))
  IN  Tuple([k \in 1..Len(starts) |-> SubSeq(s, starts[k], endOf(starts[k]))])

\* text.toLowerCase().replace(/[^a-z0-9\s]/g, ' ')
LowerAlnumOnly(s) ==
  Tuple([i \in 1..Len(s) |-> LET c == ToLowerChar(s[i]) IN IF IsLowerAlnum(c) \/ IsSpace(c) THEN c ELSE " "])

\* text.toLowerCase().replace(/[^a-z0-9\s]/g, ' ').split(/\s+/), empty pieces dropped
Tokenize(s) == SplitWords(LowerAlnumOnly(s))

\* [...new Set(ws)]: the first occurrence of each word, in order
Dedupe(ws) ==
  LET firsts == Positions(Len(ws), LAMBDA i : \A j \in 1..(i - 1) : ws[j] # ws[i])
  IN  Tuple([k \in 1..Len(firsts) |-> ws[firsts[k]]])

\* ws.sort((a, b) => b.length - a.length): stable, longer words first
SortByLengthDesc(ws) ==
  LET before(i, j) == Len(ws[i]) > Len(ws[j]) \/ (Len(ws[i]) = Len(ws[j]) /\ i < j)
      rank(i) == Cardinality({j \in 1..Len(ws) : before(j, i)})
  IN  Tuple([k \in 1..Len(ws) |-> ws[CHOOSE i \in 1..Len(ws) : rank(i) = k - 1]])


\* the concatenation of a sequence of strings
\* ------------------------------------------------------------------------
\* Markup and word lists of the parsed-text cascade
\* ------------------------------------------------------------------------

SignificantStopWords ==
  {
    <<"t","h","e">>, <<"a">>, <<"a","n">>, <<"a","n","d">>, <<"o","r">>, <<"b","u","t">>,
    <<"i","n">>, <<"o","n">>, <<"a","t">>, <<"t","o">>, <<"f","o","r">>, <<"o","f">>,
    <<"w","i","t","h">>, <<"b","y">>, <<"f","r","o","m">>, <<"a","s">>, <<"i","s">>,
    <<"w","a","s">>, <<"a","r","e">>, <<"w","e","r","e">>, <<"b","e","e","n">>, <<"b","e">>,
    <<"h","a","v","e">>, <<"h","a","s">>, <<"h","a","d">>, <<"d","o">>, <<"d","o","e","s">>,
    <<"d","i","d">>, <<"w","i","l","l">>, <<"w","o","u","l","d">>, <<"c","o","u","l","d">>,
    <<"s","h","o","u","l","d">>, <<"m","a","y">>, <<"m","i","g","h","t">>, <<"m","u","s","t">>,
    <<"t","h","i","s">>, <<"t","h","a","t">>, <<"t","h","e","s","e">>, <<"t","h","o","s","e">>,
    <<"i","t">>, <<"i","t","s">>, <<"t","h","e","y">>, <<"t","h","e","m">>,
    <<"t","h","e","i","r">>, <<"w","e">>, <<"o","u","r">>, <<"y","o","u">>, <<"y","o","u","r">>,
    <<"h","e">>, <<"s","h","e">>, <<"h","i","s">>, <<"h","e","r">>, <<"c","a","n">>,
    <<"s","u","c","h">>, <<"w","h","i","c","h">>, <<"w","h","o">>, <<"w","h","o","m">>,
    <<"w","h","a","t">>, <<"w","h","e","r","e">>, <<"w","h","e","n">>, <<"h","o","w">>,
    <<"w","h","y">>, <<"a","l","l">>, <<"e","a","c","h">>, <<"e","v","e","r","y">>,
    <<"b","o","t","h">>, <<"f","e","w">>, <<"m","o","r","e">>, <<"m","o","s","t">>,
    <<"o","t","h","e","r">>, <<"s","o","m","e">>, <<"a","n","y">>, <<"n","o">>, <<"n","o","t">>,
    <<"o","n","l","y">>, <<"s","a","m","e">>, <<"s","o">>, <<"t","h","a","n">>, <<"t","o","o">>,
    <<"v","e","r","y">>, <<"j","u","s","t">>, <<"a","l","s","o">>, <<"n","o","w">>,
    <<"h","e","r","e">>, <<"t","h","e","r","e">>, <<"t","h","e","n">>, <<"i","f">>,
    <<"e","l","s","e">>, <<"u","s","e">>, <<"u","s","e","d">>
  }

WordTierStopWords ==
  {
    <<"t","h","e">>, <<"a","n","d">>, <<"f","o","r">>, <<"a","r","e">>, <<"b","u","t">>,
    <<"n","o","t">>, <<"y","o","u">>, <<"a","l","l">>, <<"c","a","n">>, <<"h","a","s">>,
    <<"h","e","r">>, <<"w","a","s">>, <<"o","n","e">>, <<"o","u","r">>, <<"o","u","t">>,
    <<"w","i","t","h">>, <<"t","h","i","s">>, <<"t","h","a","t">>, <<"f","r","o","m">>,
    <<"h","a","v","e">>, <<"b","e","e","n">>, <<"w","i","l","l">>, <<"w","o","u","l","d">>,
    <<"c","o","u","l","d">>, <<"s","h","o","u","l","d">>, <<"i","n","t","o">>,
    <<"m","o","r","e">>, <<"s","o","m","e">>, <<"s","u","c","h">>, <<"t","h","a","n">>,
    <<"t","h","e","m">>, <<"t","h","e","n">>, <<"t","h","e","s","e">>, <<"t","h","e","y">>,
    <<"w","e","r","e">>, <<"w","h","a","t">>, <<"w","h","e","n">>, <<"w","h","e","r","e">>,
    <<"w","h","i","c","h">>, <<"w","h","i","l","e">>, <<"y","o","u","r">>
  }

DistinctiveStopWords ==
  {
    <<"t","h","i","s">>, <<"t","h","a","t">>, <<"w","i","t","h">>, <<"f","r","o","m">>,
    <<"h","a","v","e">>, <<"b","e","e","n">>, <<"w","e","r","e">>, <<"t","h","e","y">>,
    <<"t","h","e","i","r">>, <<"w","h","i","c","h">>, <<"w","o","u","l","d">>,
    <<"c","o","u","l","d">>, <<"s","h","o","u","l","d">>, <<"a","b","o","u","t">>,
    <<"t","h","e","s","e">>, <<"t","h","o","s","e">>, <<"o","t","h","e","r">>,
    <<"i","n","t","o">>, <<"m","o","r","e">>, <<"s","o","m","e">>, <<"s","u","c","h">>,
    <<"t","h","a","n">>, <<"t","h","e","m">>, <<"t","h","e","n">>, <<"t","h","e","r","e">>,
    <<"w","h","e","n">>, <<"w","h","e","r","e">>, <<"w","i","l","l">>, <<"y","o","u","r">>
  }

MarkExact == <<"<","m","a","r","k"," ","c","l","a","s","s","=","\"","c","h","u","n","k","-","h","i","g","h","l","i","g","h","t","\"",">">>
MarkWord == <<"<","m","a","r","k"," ","c","l","a","s","s","=","\"","c","h","u","n","k","-","h","i","g","h","l","i","g","h","t","-","w","o","r","d","\"",">">>
MarkFuzzy == <<"<","m","a","r","k"," ","c","l","a","s","s","=","\"","c","h","u","n","k","-","h","i","g","h","l","i","g","h","t","-","f","u","z","z","y","\"",">">>
MarkClose == <<"<","/","m","a","r","k",">">>
FlexWsClass == <<"[","\\","s","\\","n","\\","r","\\","t","]","+">>
RegexSpecials == {".","*","+","?","^","$","{","}","(",")","|","[","]","\\"}

\* the length of the chunk prefix the prefix tier searches for
PrefixLen == 100

\* how many of the sorted words the word tier replaces
WordTierLimit == 25

\* how many chunk words the last (any-word) tier replaces
AnyWordLimit == 30

\* a word of at least this length is matched without word boundaries
UnboundedWordLen == 5

\* the shortest word the word tier keeps
MinWordLen == 3

\* ------------------------------------------------------------------------
\* Regular expressions built from the chunk text
\* ------------------------------------------------------------------------

\* A regular expression source is kept as the sequence of its atoms, each the
\* characters one input character (or one run of white space) turned into; the
\* source string is their concatenation.

\* highlightChunkText.replace(/[.*+?^${}()|[\]\\]/g, '\\$&')
EscapeRegExp(s) == Tuple([i \in 1..Len(s) |-> IF s[i] \in RegexSpecials THEN <<"\\", s[i]>> ELSE <<s[i]>>])

IsSpaceAtom(a) == Len(a) = 1 /\ IsSpace(a[1])

\* a variant that leaves the white space of the chunk text as it is
RigidWhitespace(atoms) == atoms

\* escaped.replace(/\s+/g, '[\\s\\n\\r\\t]+')
FlexibleWhitespace(atoms) ==
  LET kept == Positions(Len(atoms), LAMBDA i : ~(IsSpaceAtom(atoms[i]) /\ i > 1 /\ IsSpaceAtom(atoms[i - 1])))
  IN  Tuple([k \in 1..Len(kept) |-> IF IsSpaceAtom(atoms[kept[k]]) THEN FlexWsClass ELSE atoms[kept[k]]])

\* what one atom matches: white space (the class), a literal character (escaped or
\* plain), or something else (a special character left unescaped)
CompileAtom(a) ==
  IF a = FlexWsClass THEN [kind |-> "ws", ch |-> " "]
  ELSE IF a[1] = "\\" THEN [kind |-> "lit", ch |-> a[2]]
  ELSE IF a[1] \in RegexSpecials THEN [kind |-> "meta", ch |-> a[1]]
  ELSE [kind |-> "lit", ch |-> a[1]]

\* new RegExp(`(${src})`, 'gis'): the elements of the pattern in order
CompilePattern(atoms) == Tuple([k \in 1..Len(atoms) |-> CompileAtom(atoms[k])])

\* the pattern of the exact-text and prefix tiers for a search text
FlexPattern(s) == CompilePattern(FlexibleWhitespace(EscapeRegExp(s)))

\* the offset where a match of element k that starts at offset p ends, or -1; the
\* class takes the whole run of white space (what follows it is never white space)
ElemEnd(pat, k, s, p) ==
  IF p < 0 \/ p >= Len(s) THEN -1
  ELSE IF pat[k].kind = "meta" THEN -1
  ELSE IF pat[k].kind = "ws"
    THEN IF ~IsSpace(s[p + 1]) THEN -1
         ELSE First(p + 1, Len(s), LAMBDA q : q = Len(s) \/ ~IsSpace(s[q + 1]))
  ELSE IF ToLowerChar(s[p + 1]) = ToLowerChar(pat[k].ch) THEN p + 1
  ELSE -1

\* the offset where a match of elements lo..hi that starts at offset p ends, or -1
RECURSIVE PatEndBetween(_, _, _, _, _)
PatEndBetween(pat, lo, hi, s, p) ==
  IF p < 0 THEN -1
  ELSE IF lo > hi THEN p
  ELSE IF lo = hi THEN ElemEnd(pat, lo, s, p)
  ELSE LET mid == (lo + hi) \div 2
           e == PatEndBetween(pat, lo, mid, s, p)
       IN  IF e < 0 THEN -1 ELSE PatEndBetween(pat, mid + 1, hi, s, e)

PatEnd(pat, k, s, p) == PatEndBetween(pat, k, Len(pat), s, p)

\* flag g: the leftmost matches from offset `from` on, none overlapping another
RECURSIVE PatMatchesFrom(_, _, _)
PatMatchesFrom(pat, s, from) ==
  LET p == First(from, Len(s) - 1, LAMBDA q : ElemEnd(pat, 1, s, q) # -1 /\ PatEnd(pat, 1, s, q) # -1)
      e == PatEnd(pat, 1, s, p)
  IN  IF p = -1 THEN << >> ELSE <<[start |-> p, end |-> e]>> \o PatMatchesFrom(pat, s, e)

PatMatches(pat, s) == IF Len(pat) = 0 THEN << >> ELSE PatMatchesFrom(pat, s, 0)

\* whether a match of the lower-case word w starts at offset p of s, under flag i and,
\* when bounded, between two \b
WordMatchAt(s, w, p, bounded) ==
  /\ p + Len(w) <= Len(s)
  /\ \A k \in 1..Len(w) : ToLowerChar(s[p + k]) = w[k]
  /\ bounded => /\ (p = 0 \/ ~IsWordChar(s[p]))
                /\ (p + Len(w) = Len(s) \/ ~IsWordChar(s[p + Len(w) + 1]))

RECURSIVE WordMatchesFrom(_, _, _, _)
WordMatchesFrom(s, w, bounded, from) ==
  LET p == First(from, Len(s) - Len(w), LAMBDA q : WordMatchAt(s, w, q, bounded))
  IN  IF p = -1 THEN << >> ELSE <<[start |-> p, end |-> p + Len(w)]>> \o WordMatchesFrom(s, w, bounded, p + Len(w))

WordMatches(s, w, bounded) == WordMatchesFrom(s, w, bounded, 0)

\* s with every match m (ascending, disjoint) replaced by open, the match, close:
\* s.replace(regex, open + '$1' + close)
RECURSIVE WrapFrom(_, _, _, _, _, _)
WrapFrom(s, ms, k, last, open, close) ==
  IF k > Len(ms) THEN SliceFrom(s, last)
  ELSE Slice(s, last, ms[k].start) \o open \o Slice(s, ms[k].start, ms[k].end) \o close
       \o WrapFrom(s, ms, k + 1, ms[k].end, open, close)

WrapMatches(s, ms, open, close) == WrapFrom(s, ms, 1, 0, open, close)

\* ------------------------------------------------------------------------
\* Nullable store fields: null is the empty sequence, a value v is <<v>>
\* ------------------------------------------------------------------------

Null == << >>

Some(v) == <<v>>

IsNull(o) == o = << >>

Val(o) == o[1]

\* ------------------------------------------------------------------------
\* Word sets of the region tiers
\* ------------------------------------------------------------------------

\* the shortest word SourceSidebar's getSignificantWords keeps
SidebarMinWordLen == 2

\* DocumentViewer's getSignificantWords keeps the words longer than this
ViewerWordLenAbove == 3

\* SourceSidebar getSignificantWords: the keys of the word-count map
SidebarSignificantWords(s) ==
  LET ws == SelectSeq(Tokenize(s), LAMBDA w : Len(w) >= SidebarMinWordLen /\ w \notin SignificantStopWords)
  IN  {ws[i] : i \in 1..Len(ws)}

\* DocumentViewer getSignificantWords
ViewerSignificantWords(s) ==
  LET ws == SelectSeq(Tokenize(s), LAMBDA w : Len(w) > ViewerWordLenAbove /\ w \notin SignificantStopWords)
  IN  {ws[i] : i \in 1..Len(ws)}

\* ------------------------------------------------------------------------
\* SourceSidebar: calculateSimilarityScore, splitIntoSentences,
\* findBestMatchingRegions
\* ------------------------------------------------------------------------

\* a partial match needs both words to have at least this length
PartialWordLen == 5

\* four times the cap of a matched word's weight, Math.min(word.length / 4, 3)
WeightCapTimes4 == 12

\* the loop over the region's words; mw2 is twice matchedWords, w4 four times totalWeight
RECURSIVE SimilarityFold(_, _, _, _, _, _)
SimilarityFold(rw, i, chunkWords, matched, mw2, w4) ==
  IF i > Len(rw) THEN [mw2 |-> mw2, w4 |-> w4]
  ELSE
    LET w == rw[i]
        exact == w \in chunkWords /\ w \notin matched
        matched1 == IF exact THEN matched \cup {w} ELSE matched
        partial == IF Len(w) >= PartialWordLen
                   THEN {cw \in chunkWords : /\ Len(cw) >= PartialWordLen
                                             /\ cw \notin matched1
                                             /\ (Includes(w, cw) \/ Includes(cw, w))}
                   ELSE {}
    IN  SimilarityFold(rw, i + 1, chunkWords, matched1 \cup partial,
                       mw2 + (IF exact THEN 2 ELSE 0) + Cardinality(partial),
                       w4 + (IF exact THEN Min2(Len(w), WeightCapTimes4) ELSE 0) + 4 * Cardinality(partial))

\* calculateSimilarityScore times 20 * chunkWords.size, which keeps it an integer:
\* (matchedWords / size) * 100 + totalWeight
SimilarityScore(regionText, chunkWords) ==
  IF chunkWords = {} THEN 0
  ELSE
    LET rw == SelectSeq(Tokenize(regionText), LAMBDA w : Len(w) >= SidebarMinWordLen)
        r == SimilarityFold(rw, 1, chunkWords, {}, 0, 0)
    IN  1000 * r.mw2 + 5 * r.w4 * Cardinality(chunkWords)

\* Math.max(1, chunkWords.size * 0.05) on the scale of SimilarityScore
MinScore(chunkWords) == Max2(20 * Cardinality(chunkWords), Cardinality(chunkWords) * Cardinality(chunkWords))

IsTerminator(c) == c \in {".", "!", "?", "\n"}

\* a sentence's trimmed text must be longer than this
MinSentenceLen == 10

\* the matches of /[^.!?\n]+(?:[.!?]+|\n|$)/g, those with a trimmed text of more than
\* 10 characters, in order
SplitIntoSentences(text) ==
  LET n == Len(text)
      starts == Positions(n, LAMBDA i : ~IsTerminator(text[i]) /\ (i = 1 \/ IsTerminator(text[i - 1])))
      runEnd(i) == First(i, n, LAMBDA j : j = n \/ IsTerminator(text[j + 1]))
      matchEnd(i) ==
        LET r == runEnd(i)
        IN  IF r = n THEN n
            ELSE IF text[r + 1] = "\n" THEN r + 1
            ELSE First(r + 1, n, LAMBDA j : j = n \/ text[j + 1] \notin {".", "!", "?"})
      all == Tuple([k \in 1..Len(starts) |->
                [text |-> Trim(SubSeq(text, starts[k], matchEnd(starts[k]))),
                 start |-> starts[k] - 1,
                 end |-> matchEnd(starts[k])]])
  IN  SelectSeq(all, LAMBDA s : Len(s.text) > MinSentenceLen)

\* at most this many sentences are highlighted
TopSentences == 5

\* sentences closer than this are merged into one region
MergeGap == 150

SidebarWindowSize == 400

SidebarWindowStep == 30

\* the default-head span's length
DefaultHeadLen == 500

\* the merge loop over the top sentences in position order
RECURSIVE MergeRegions(_, _, _)
MergeRegions(ms, k, merged) ==
  IF k > Len(ms) THEN merged
  ELSE IF Len(merged) = 0 THEN MergeRegions(ms, k + 1, <<[start |-> ms[k].start, end |-> ms[k].end]>>)
  ELSE LET last == merged[Len(merged)]
       IN  IF ms[k].start - last.end < MergeGap
           THEN MergeRegions(ms, k + 1, [merged EXCEPT ![Len(merged)].end = ms[k].end])
           ELSE MergeRegions(ms, k + 1, Append(merged, [start |-> ms[k].start, end |-> ms[k].end]))

\* the score of every sentence
SentenceScores(sentences, chunkWords) ==
  Tuple([k \in 1..Len(sentences) |-> SimilarityScore(sentences[k].text, chunkWords)])

\* scoredSentences.filter(s => s.score >= minScore), sorted by descending score (the
\* sort is stable), .slice(0, 5), sorted by position: the indices of those sentences
TopSentencesOf(score, minScore) ==
  Positions(Len(score), LAMBDA k :
    /\ score[k] >= minScore
    /\ Cardinality({j \in 1..Len(score) :
                      /\ score[j] >= minScore
                      /\ (score[j] > score[k] \/ (score[j] = score[k] /\ j < k))}) < TopSentences)

\* the merged regions of the top sentences
SentenceRegions(sentences, top) == MergeRegions([k \in 1..Len(top) |-> sentences[top[k]]], 1, << >>)

\* for (let i = 0; i < text.length - 30; i += 30): the number of windows
SidebarWindowCount(n) ==
  IF n > SidebarWindowStep THEN ((n - SidebarWindowStep - 1) \div SidebarWindowStep) + 1 ELSE 0

\* window k starts at (k - 1) * 30
SidebarWindowStart(k) == (k - 1) * SidebarWindowStep

\* the score of every window
SidebarWindowScores(text, chunkWords) ==
  Tuple([k \in 1..SidebarWindowCount(Len(text)) |->
           SimilarityScore(Slice(text, SidebarWindowStart(k),
                                 Min2(SidebarWindowStart(k) + SidebarWindowSize, Len(text))),
                           chunkWords)])

\* score > bestScore: the first window with the greatest score, -1 without windows
BestWindow(wscore) == First(1, Len(wscore), LAMBDA k : \A j \in 1..Len(wscore) : wscore[j] <= wscore[k])

\* the window expanded to sentence boundaries:
\* while (bestStart > 0 && text[bestStart - 1] is no terminator) bestStart--
\* while (bestEnd < text.length && text[bestEnd] is no terminator) bestEnd++
SidebarExpandWindow(text, bestStart, bestEnd) ==
  [start |-> Max2(0, Last(1, bestStart, LAMBDA t : IsTerminator(text[t]))),
   end |-> Min2(First(bestEnd, Len(text), LAMBDA e : e = Len(text) \/ IsTerminator(text[e + 1])) + 1, Len(text))]

\* a variant without the branch that marks the head of the text
WindowRegionsNoHead(text, wscore, bestK) ==
  IF bestK # -1 /\ wscore[bestK] > 0
  THEN [kind |-> "window",
        regions |-> <<SidebarExpandWindow(text, SidebarWindowStart(bestK),
                                          Min2(SidebarWindowStart(bestK) + SidebarWindowSize, Len(text)))>>]
  ELSE [kind |-> "none", regions |-> << >>]

\* a variant that marks the head of an empty text too
WindowRegionsHeadOfEmpty(text, wscore, bestK) ==
  IF bestK # -1 /\ wscore[bestK] > 0
  THEN [kind |-> "window",
        regions |-> <<SidebarExpandWindow(text, SidebarWindowStart(bestK),
                                          Min2(SidebarWindowStart(bestK) + SidebarWindowSize, Len(text)))>>]
  ELSE [kind |-> "head", regions |-> <<[start |-> 0, end |-> Min2(DefaultHeadLen, Len(text))]>>]

\* the sliding-window fallback and, when no window scores, the first 500 characters
WindowRegions(text, wscore, bestK) ==
  IF bestK # -1 /\ wscore[bestK] > 0
  THEN [kind |-> "window",
        regions |-> <<SidebarExpandWindow(text, SidebarWindowStart(bestK),
                                          Min2(SidebarWindowStart(bestK) + SidebarWindowSize, Len(text)))>>]
  ELSE IF Len(text) > 0
    THEN [kind |-> "head", regions |-> <<[start |-> 0, end |-> Min2(DefaultHeadLen, Len(text))]>>]
    ELSE [kind |-> "none", regions |-> << >>]

\* the fallback over the windows' scores
WindowFallback(text, wscore) == WindowRegions(text, wscore, BestWindow(wscore))

\* the top sentences if there are any, else the fallback
RegionsOfTop(text, chunkWords, sentences, top) ==
  IF Len(top) > 0
  THEN [kind |-> "sentences", regions |-> SentenceRegions(sentences, top)]
  ELSE WindowFallback(text, SidebarWindowScores(text, chunkWords))

\* the regions given the sentences of the text
RegionsOfSentences(text, chunkWords, sentences) ==
  RegionsOfTop(text, chunkWords, sentences,
               TopSentencesOf(SentenceScores(sentences, chunkWords), MinScore(chunkWords)))

\* a variant without the early return for a chunk without significant words
FindBestMatchingRegionsAnyChunk(text, chunkWords) ==
  RegionsOfSentences(text, chunkWords, SplitIntoSentences(text))

\* findBestMatchingRegions: the regions and the branch that produced them
FindBestMatchingRegions(text, chunkWords) ==
  IF chunkWords = {} THEN [kind |-> "none", regions |-> << >>]
  ELSE RegionsOfSentences(text, chunkWords, SplitIntoSentences(text))

\* ------------------------------------------------------------------------
\* DocumentViewer: findBestMatchingRegion
\* ------------------------------------------------------------------------

ViewerWindowSize == 500

ViewerWindowStep == 100

\* the least number of matching words of an accepted region
ViewerMinRegionScore == 3

\* for (let i = 0; i < text.length - 100; i += step): the number of windows
ViewerWindowCount(n) ==
  IF n > ViewerWindowStep THEN ((n - ViewerWindowStep - 1) \div ViewerWindowStep) + 1 ELSE 0

\* window k starts at (k - 1) * step
ViewerWindowStart(k) == (k - 1) * ViewerWindowStep

\* the number of the window's words that are chunk words
WordHits(words, chunkWords) == Cardinality({j \in 1..Len(words) : words[j] \in chunkWords})

\* the score of every window
ViewerWindowScores(text, chunkWords) ==
  Tuple([k \in 1..ViewerWindowCount(Len(text)) |->
           WordHits(Tokenize(Slice(text, ViewerWindowStart(k),
                                   Min2(ViewerWindowStart(k) + ViewerWindowSize, Len(text)))),
                    chunkWords)])

\* the window expanded to word boundaries:
\* while (bestStart > 0 && text[bestStart - 1] is no space or newline) bestStart--
\* while (bestEnd < text.length && text[bestEnd] is no space or newline) bestEnd++
ViewerExpandWindow(text, bestStart, bestEnd) ==
  [start |-> Max2(0, Last(1, bestStart, LAMBDA t : text[t] \in {" ", "\n"})),
   end |-> First(bestEnd, Len(text), LAMBDA e : e = Len(text) \/ text[e + 1] \in {" ", "\n"})]

\* bestScore >= 3 ? the expanded window : null
ViewerWindowRegion(text, wscore, bestK) ==
  IF bestK # -1 /\ wscore[bestK] >= ViewerMinRegionScore
  THEN <<ViewerExpandWindow(text, ViewerWindowStart(bestK),
                            Min2(ViewerWindowStart(bestK) + ViewerWindowSize, Len(text)))>>
  ELSE << >>

\* the region over the windows' scores
ViewerBestRegion(text, wscore) == ViewerWindowRegion(text, wscore, BestWindow(wscore))

\* findBestMatchingRegion: << >> for null, else the one region
FindBestMatchingRegion(text, chunkWords) ==
  IF chunkWords = {} THEN << >> ELSE ViewerBestRegion(text, ViewerWindowScores(text, chunkWords))
\* ------------------------------------------------------------------------
\* highlightTextInContent: the tiers
\* ------------------------------------------------------------------------

\* tier 1 applies: the offsets, moved by the page's start offset, pass the range check
PositionApplies(text, idx, pageStartOffset) ==
  /\ ~IsNull(idx)
  /\ LET relStart == Val(idx).start - pageStartOffset
         relEnd == Val(idx).end - pageStartOffset
     IN  relStart >= 0 /\ relStart < Len(text) /\ relEnd > 0 /\ relEnd <= Len(text)

\* a variant that takes the end offset as the last marked character
PositionHtmlInclusiveEnd(text, idx, pageStartOffset) ==
  LET relStart == Val(idx).start - pageStartOffset
      relEnd == Val(idx).end - pageStartOffset
  IN  Slice(text, 0, relStart) \o MarkExact \o Slice(text, relStart, relEnd + 1) \o MarkClose \o SliceFrom(text, relEnd + 1)

\* `${before}<mark class="chunk-highlight">${match}</mark>${after}`
PositionHtml(text, idx, pageStartOffset) ==
  LET relStart == Val(idx).start - pageStartOffset
      relEnd == Val(idx).end - pageStartOffset
  IN  Slice(text, 0, relStart) \o MarkExact \o Slice(text, relStart, relEnd) \o MarkClose \o SliceFrom(text, relEnd)

\* tier 2: text.replace(regex, '<mark class="chunk-highlight">$1</mark>')
ExactTextHtml(text, chunkText) == WrapMatches(text, PatMatches(FlexPattern(chunkText), text), MarkExact, MarkClose)

\* a variant that searches for the first 80 characters
PrefixHtmlFirst80(text, chunkText) ==
  IF Len(chunkText) > PrefixLen
  THEN WrapMatches(text, PatMatches(FlexPattern(Slice(chunkText, 0, 80)), text), MarkExact, MarkClose)
  ELSE text

\* tier 3: the same with the first 100 characters of a chunk of more than 100
PrefixHtml(text, chunkText) ==
  IF Len(chunkText) > PrefixLen
  THEN WrapMatches(text, PatMatches(FlexPattern(Slice(chunkText, 0, PrefixLen)), text), MarkExact, MarkClose)
  ELSE text

\* the chunk's words of 3 and more characters
ChunkWords(chunkText) == SelectSeq(Tokenize(chunkText), LAMBDA w : Len(w) >= MinWordLen)

MeaningfulWords(chunkText) == SelectSeq(ChunkWords(chunkText), LAMBDA w : w \notin WordTierStopWords /\ Len(w) >= MinWordLen)

\* result.replace(wordRegex, '<mark class="chunk-highlight-word">$1</mark>')
ReplaceWord(result, w, bounded) == WrapMatches(result, WordMatches(result, w, bounded), MarkWord, MarkClose)

\* new RegExp(...) or replace throws for the patterns built from the strings in
\* `thrown`; the catch block of a tier leaves what the tier started with

\* a variant without the catch block: the text is lost with the exception
TryExactTextUncaught(thrown, text, chunkText) ==
  IF chunkText \in thrown THEN << >> ELSE ExactTextHtml(text, chunkText)

\* try { tier 2 } catch { }
TryExactText(thrown, text, chunkText) ==
  IF chunkText \in thrown THEN text ELSE ExactTextHtml(text, chunkText)

\* try { tier 3 } catch { }
TryPrefix(thrown, text, chunkText) ==
  IF Len(chunkText) > PrefixLen /\ Slice(chunkText, 0, PrefixLen) \in thrown THEN text ELSE PrefixHtml(text, chunkText)

\* try { the replacement of one word } catch { }
TryReplaceWord(thrown, result, w, bounded) ==
  IF w \in thrown THEN result ELSE ReplaceWord(result, w, bounded)

\* tier 4's loop: each word is replaced in the result of the words before it
RECURSIVE WordTierFold(_, _, _, _, _)
WordTierFold(thrown, result, words, k, hasMatch) ==
  IF k > Len(words) THEN [html |-> result, hasMatch |-> hasMatch]
  ELSE LET newResult == TryReplaceWord(thrown, result, words[k], Len(words[k]) < UnboundedWordLen)
       IN  IF newResult # result THEN WordTierFold(thrown, newResult, words, k + 1, TRUE)
           ELSE WordTierFold(thrown, result, words, k + 1, hasMatch)

WordTier(thrown, text, chunkText) ==
  LET meaningfulWords == MeaningfulWords(chunkText)
      sortedWords == SortByLengthDesc(Dedupe(meaningfulWords))
  IN  IF Len(meaningfulWords) > 0
      THEN WordTierFold(thrown, text, SubSeq(sortedWords, 1, Min2(WordTierLimit, Len(sortedWords))), 1, FALSE)
      ELSE [html |-> text, hasMatch |-> FALSE]

\* SourceSidebar tier: the regions wrapped in chunk-highlight-fuzzy marks
RECURSIVE FuzzyFrom(_, _, _, _)
FuzzyFrom(text, regions, k, lastEnd) ==
  IF k > Len(regions) THEN SliceFrom(text, lastEnd)
  ELSE Slice(text, lastEnd, regions[k].start) \o MarkFuzzy \o Slice(text, regions[k].start, regions[k].end)
       \o MarkClose \o FuzzyFrom(text, regions, k + 1, regions[k].end)

FuzzyHtml(text, regions) == FuzzyFrom(text, regions, 1, 0)

\* DocumentViewer tier: `${before}<mark class="chunk-highlight-word">${match}</mark>${after}`
RegionHtml(text, region) ==
  Slice(text, 0, region.start) \o MarkWord \o Slice(text, region.start, region.end) \o MarkClose \o SliceFrom(text, region.end)

\* the last tier: every chunk word of 3 and more characters, anywhere
RECURSIVE AnyWordFold(_, _, _, _)
AnyWordFold(thrown, result, words, k) ==
  IF k > Len(words) THEN result
  ELSE LET newResult == TryReplaceWord(thrown, result, words[k], FALSE)
       IN  IF newResult # result THEN AnyWordFold(thrown, newResult, words, k + 1) ELSE AnyWordFold(thrown, result, words, k + 1)

AnyWordHtml(thrown, text, chunkText) ==
  LET chunkWords == ChunkWords(chunkText)
  IN  AnyWordFold(thrown, text, SubSeq(chunkWords, 1, Min2(AnyWordLimit, Len(chunkWords))), 1)

\* ------------------------------------------------------------------------
\* highlightTextInContent: the cascade.  chunkText and idx are the store's
\* highlightChunkText and highlightChunkIdx; the result is the markup and the tier
\* that returned it.
\* ------------------------------------------------------------------------

Unmatched(text) == [method |-> "unmatched", html |-> text]

\* no tier has returned yet
Continue(text) == [method |-> "continue", html |-> text]

\* a variant that tries the word tier before the exact-text and prefix tiers
EarlyTiersWordFirst(thrown, text, chunkText, idx, pageStartOffset) ==
  IF IsNull(chunkText) \/ Val(chunkText) = << >> THEN Unmatched(text)
  ELSE IF PositionApplies(text, idx, pageStartOffset)
    THEN [method |-> "exact-position", html |-> PositionHtml(text, idx, pageStartOffset)]
  ELSE
    LET words == WordTier(thrown, text, Val(chunkText))
    IN  IF words.hasMatch THEN [method |-> "word-overlay", html |-> words.html]
        ELSE
          LET exact == TryExactText(thrown, text, Val(chunkText))
          IN  IF exact # text THEN [method |-> "exact-text", html |-> exact]
              ELSE
                LET prefix == TryPrefix(thrown, text, Val(chunkText))
                IN  IF prefix # text THEN [method |-> "prefix", html |-> prefix] ELSE Continue(text)

\* the start of highlightTextInContent, the same in both components: the guard, the
\* position tier and the exact-text, prefix and word tiers
EarlyTiers(thrown, text, chunkText, idx, pageStartOffset) ==
  IF IsNull(chunkText) \/ Val(chunkText) = << >> THEN Unmatched(text)
  ELSE IF PositionApplies(text, idx, pageStartOffset)
    THEN [method |-> "exact-position", html |-> PositionHtml(text, idx, pageStartOffset)]
  ELSE
    LET exact == TryExactText(thrown, text, Val(chunkText))
    IN  IF exact # text THEN [method |-> "exact-text", html |-> exact]
        ELSE
          LET prefix == TryPrefix(thrown, text, Val(chunkText))
          IN  IF prefix # text THEN [method |-> "prefix", html |-> prefix]
              ELSE
                LET words == WordTier(thrown, text, Val(chunkText))
                IN  IF words.hasMatch THEN [method |-> "word-overlay", html |-> words.html]
                    ELSE Continue(text)

\* the last tier of both components
AnyWordTier(thrown, text, chunkText) ==
  LET html == AnyWordHtml(thrown, text, chunkText)
  IN  IF Len(ChunkWords(chunkText)) > 0 /\ html # text THEN [method |-> "any-word", html |-> html] ELSE Unmatched(text)

\* SourceSidebar's FALLBACK 4 and 5, given the regions found
SidebarRegionResult(thrown, text, chunkText, best) ==
  IF Len(best.regions) > 0
  THEN [method |-> IF best.kind = "head" THEN "default-head" ELSE "fuzzy-region",
        html |-> FuzzyHtml(text, best.regions)]
  ELSE AnyWordTier(thrown, text, chunkText)

SidebarRegionTiers(thrown, text, chunkText) ==
  SidebarRegionResult(thrown, text, chunkText, FindBestMatchingRegions(text, SidebarSignificantWords(chunkText)))

\* DocumentViewer's FALLBACK 4 and 5, given the region found
ViewerRegionResult(thrown, text, chunkText, best) ==
  IF ~IsNull(best)
  THEN [method |-> "fuzzy-region", html |-> RegionHtml(text, Val(best))]
  ELSE AnyWordTier(thrown, text, chunkText)

ViewerRegionTiers(thrown, text, chunkText) ==
  ViewerRegionResult(thrown, text, chunkText, FindBestMatchingRegion(text, ViewerSignificantWords(chunkText)))

\* the rest of SourceSidebar's highlightTextInContent
SidebarAfter(thrown, early, text, chunkText) ==
  IF early.method # "continue" THEN early ELSE SidebarRegionTiers(thrown, text, Val(chunkText))

\* the rest of DocumentViewer's highlightTextInContent
ViewerAfter(thrown, early, text, chunkText) ==
  IF early.method # "continue" THEN early ELSE ViewerRegionTiers(thrown, text, Val(chunkText))

\* SourceSidebar highlightTextInContent
SidebarHighlightTextInContent(thrown, text, chunkText, idx, pageStartOffset) ==
  SidebarAfter(thrown, EarlyTiers(thrown, text, chunkText, idx, pageStartOffset), text, chunkText)

\* DocumentViewer highlightTextInContent
ViewerHighlightTextInContent(thrown, text, chunkText, idx, pageStartOffset) ==
  ViewerAfter(thrown, EarlyTiers(thrown, text, chunkText, idx, pageStartOffset), text, chunkText)

\* ------------------------------------------------------------------------
\* Reading the markup back: the text without its mark tags, and the marked
\* spans as offsets into that text
\* ------------------------------------------------------------------------

IsOpenAt(html, p) == OccursAt(html, MarkExact, p) \/ OccursAt(html, MarkWord, p) \/ OccursAt(html, MarkFuzzy, p)

OpenLenAt(html, p) ==
  IF OccursAt(html, MarkExact, p) THEN Len(MarkExact)
  ELSE IF OccursAt(html, MarkWord, p) THEN Len(MarkWord)
  ELSE Len(MarkFuzzy)

\* the offsets of the mark tags, in order
TagStarts(html) ==
  LET at == Positions(Len(html), LAMBDA i : html[i] = "<" /\ (IsOpenAt(html, i - 1) \/ OccursAt(html, MarkClose, i - 1)))
  IN  Tuple([k \in 1..Len(at) |-> at[k] - 1])

TagLenAt(html, p) == IF OccursAt(html, MarkClose, p) THEN Len(MarkClose) ELSE OpenLenAt(html, p)

RECURSIVE StripFrom(_, _, _, _)
StripFrom(html, tags, k, from) ==
  IF k > Len(tags) THEN SliceFrom(html, from)
  ELSE Slice(html, from, tags[k]) \o StripFrom(html, tags, k + 1, tags[k] + TagLenAt(html, tags[k]))

\* the markup with its mark tags removed
StripMarks(html) == StripFrom(html, TagStarts(html), 1, 0)

\* the marks in closing order; `removed` counts the tag characters before tag k and
\* `open` holds the text offsets of the marks not closed yet
RECURSIVE SpansFrom(_, _, _, _, _)
SpansFrom(html, tags, k, removed, open) ==
  IF k > Len(tags) THEN << >>
  ELSE
    LET p == tags[k]
        at == p - removed
    IN  IF OccursAt(html, MarkClose, p)
        THEN IF Len(open) = 0 THEN SpansFrom(html, tags, k + 1, removed + Len(MarkClose), open)
             ELSE <<[start |-> open[Len(open)], end |-> at]>>
                  \o SpansFrom(html, tags, k + 1, removed + Len(MarkClose), SubSeq(open, 1, Len(open) - 1))
        ELSE SpansFrom(html, tags, k + 1, removed + OpenLenAt(html, p), Append(open, at))

MarkSpans(html) == SpansFrom(html, TagStarts(html), 1, 0, << >>)

\* ------------------------------------------------------------------------
\* PDF text layer: highlightPdfText of DocumentViewer and of SourceSidebar.
\* A text layer is the sequence of the texts of its spans; the marked spans are a
\* set of indices into it.
\* ------------------------------------------------------------------------

\* a string that is neither null nor empty
Truthy(t) == ~IsNull(t) /\ Val(t) # << >>

\* the concatenation of a sequence of strings
RECURSIVE ConcatAll(_)
ConcatAll(ts) == IF ts = << >> THEN << >> ELSE Head(ts) \o ConcatAll(Tail(ts))

\* spanRanges: each span's start and end in the concatenated text
SpanRanges(spans) ==
  Tuple([k \in 1..Len(spans) |->
           LET start == Len(ConcatAll(SubSeq(spans, 1, k - 1)))
           IN  [start |-> start, end |-> start + Len(spans[k])]])

\* the spans with start < matchEnd && end > matchStart
OverlappingSpans(spans, matchStart, matchEnd) ==
  LET ranges == SpanRanges(spans)
  IN  {k \in 1..Len(spans) : ranges[k].start < matchEnd /\ ranges[k].end > matchStart}

\* highlightChunkText.toLowerCase().replace(/\s+/g, ' ').trim()
PdfSearchText(chunkText) == Trim(CollapseWhitespace(ToLower(chunkText)))

\* the prefix of the search text DocumentViewer tries when the whole of it is absent
PdfPrefixLen == 100

\* the last branch of DocumentViewer's search: the best matching region
PdfFuzzyRegion(bestRegion) ==
  IF bestRegion # << >>
  THEN [method |-> "fuzzy-region", start |-> bestRegion[1].start, end |-> bestRegion[1].end]
  ELSE [method |-> "unmatched", start |-> 0, end |-> 0]

\* searchText.length > 100 ? fullTextLower.indexOf(shortSearch) : no match
PdfPrefixIndex(fullTextLower, searchText, shortSearch) ==
  IF Len(searchText) > PdfPrefixLen THEN IndexOf(fullTextLower, shortSearch) ELSE -1

\* the branch for the first 100 characters of the search text
PdfPrefixRegion(fullText, chunkText, shortSearch, shortMatchIdx) ==
  IF shortMatchIdx # -1
  THEN [method |-> "prefix", start |-> shortMatchIdx,
        end |-> Min2(shortMatchIdx + Len(shortSearch), Len(fullText))]
  ELSE PdfFuzzyRegion(FindBestMatchingRegion(fullText, ViewerSignificantWords(chunkText)))

\* the branch for the whole search text
PdfExactRegion(fullText, chunkText, fullTextLower, searchText, exactMatchIdx) ==
  IF exactMatchIdx # -1
  THEN [method |-> "exact-text", start |-> exactMatchIdx,
        end |-> Min2(exactMatchIdx + Len(searchText), Len(fullText))]
  ELSE PdfPrefixRegion(fullText, chunkText, Slice(searchText, 0, PdfPrefixLen),
                       PdfPrefixIndex(fullTextLower, searchText, Slice(searchText, 0, PdfPrefixLen)))

\* DocumentViewer highlightPdfText, one text layer: exact match, then the first 100
\* characters, then the best matching region
ViewerPdfSearch(fullText, chunkText, fullTextLower, searchText) ==
  PdfExactRegion(fullText, chunkText, fullTextLower, searchText, IndexOf(fullTextLower, searchText))

ViewerPdfRegion(fullText, chunkText) ==
  ViewerPdfSearch(fullText, chunkText, ToLower(fullText), PdfSearchText(chunkText))

\* SourceSidebar's search words are longer than this
PdfSearchWordLenAbove == 3

\* the number of search words SourceSidebar tries
PdfSearchWordLimit == 10

\* searchText.split(' ').filter(w => w.length > 3).slice(0, 10)
PdfSearchWords(searchText) ==
  Slice(SelectSeq(SplitWords(searchText), LAMBDA w : Len(w) > PdfSearchWordLenAbove), 0, PdfSearchWordLimit)

\* from the first occurrence of the word over the length of the search text
PdfWordRegion(fullText, searchText, wordIdx) ==
  [method |-> "word", start |-> wordIdx, end |-> Min2(wordIdx + Len(searchText), Len(fullText))]

\* the loop over the search words stops at the first one that occurs
PdfFirstWord(fullText, fullTextLower, searchText, searchWords, hit) ==
  IF hit = -1 THEN [method |-> "unmatched", start |-> 0, end |-> 0]
  ELSE PdfWordRegion(fullText, searchText, IndexOf(fullTextLower, searchWords[hit]))

\* SourceSidebar highlightPdfText, one text layer
SidebarPdfSearch(fullText, fullTextLower, searchText, searchWords) ==
  PdfFirstWord(fullText, fullTextLower, searchText, searchWords,
               First(1, Len(searchWords), LAMBDA k : IndexOf(fullTextLower, searchWords[k]) # -1))

SidebarPdfRegion(fullText, chunkText) ==
  SidebarPdfSearch(fullText, ToLower(fullText), PdfSearchText(chunkText), PdfSearchWords(PdfSearchText(chunkText)))

\* a variant that leaves the marks of earlier passes in place
KeepPdfHighlights(marks) == marks

\* oldHighlights.forEach(el => el.classList.remove('pdf-chunk-highlight'))
ClearPdfHighlights(marks) == {}

\* textLayer.querySelector('.pdf-chunk-highlight'): the first marked span, if any
FirstHighlight(marks) == IF marks = {} THEN Null ELSE Some(SetMin(marks))

\* a pass that returns before it searches
NoPdfSearch(marks) == [marks |-> marks, method |-> "none", scroll |-> Null, span |-> Null]

\* the spans that overlap the region get the class pdf-chunk-highlight and the first
\* of them is scrolled into view
MarkRegion(unmarked, spans, region) ==
  [marks |-> unmarked \cup OverlappingSpans(spans, region.start, region.end),
   method |-> region.method,
   scroll |-> IF region.method = "unmatched" THEN Null
              ELSE FirstHighlight(unmarked \cup OverlappingSpans(spans, region.start, region.end)),
   span |-> IF region.method = "unmatched" THEN Null ELSE Some([start |-> region.start, end |-> region.end])]

\* DocumentViewer highlightPdfText: container is whether pdfContainerRef.current is
\* set, layer the spans of the rendered text layer or null
ViewerHighlightPdfText(container, layer, marks, chunkText) ==
  IF ~Truthy(chunkText) \/ ~container THEN NoPdfSearch(marks)
  ELSE IF IsNull(layer) THEN NoPdfSearch(ClearPdfHighlights(marks))
  ELSE MarkRegion(ClearPdfHighlights(marks), Val(layer), ViewerPdfRegion(ConcatAll(Val(layer)), Val(chunkText)))

\* SourceSidebar highlightPdfText
SidebarHighlightPdfText(container, layer, marks, chunkText) ==
  IF ~Truthy(chunkText) \/ ~container THEN NoPdfSearch(marks)
  ELSE IF IsNull(layer) THEN NoPdfSearch(ClearPdfHighlights(marks))
  ELSE MarkRegion(ClearPdfHighlights(marks), Val(layer), SidebarPdfRegion(ConcatAll(Val(layer)), Val(chunkText)))

\* ------------------------------------------------------------------------
\* Rendered tree: highlightInIframe of SourceSidebar; the timer callback of
\* DocumentViewer's iframe effect has the same body.
\* The body of the iframe document is the sequence of its text nodes in document
\* order, each with its text, the element it lies in and the number of highlight
\* spans around it, and the set of elements with the class
\* sourcemapr-highlight-parent ("span" stands for a highlight span).
\* ------------------------------------------------------------------------

\* node.parentElement
ParentOf(node) == IF node.depth > 0 THEN "span" ELSE node.elem

\* a variant that leaves the marks of earlier passes in place
KeepHighlights(dom) == dom

\* every highlight span is replaced by its text and the parent normalized, and the
\* class sourcemapr-highlight-parent removed everywhere
RemoveHighlights(dom) ==
  LET nodes == dom.nodes
      starts == Positions(Len(nodes), LAMBDA i : i = 1 \/ nodes[i].elem # nodes[i - 1].elem)
      endOf(k) == IF k = Len(starts) THEN Len(nodes) ELSE starts[k + 1] - 1
      merged == Tuple([k \in 1..Len(starts) |->
                         [text |-> ConcatAll([j \in 1..(endOf(k) - starts[k] + 1) |-> nodes[starts[k] + j - 1].text]),
                          elem |-> nodes[starts[k]].elem,
                          depth |-> 0]])
  IN  IF \E i \in 1..Len(nodes) : nodes[i].depth > 0
      THEN [nodes |-> merged, marked |-> {}, unwrappable |-> dom.unwrappable]
      ELSE [nodes |-> nodes, marked |-> {}, unwrappable |-> dom.unwrappable]

\* the tree walker's text nodes with text.trim(): indices into the nodes
TextNodes(dom) == Positions(Len(dom.nodes), LAMBDA i : Trim(dom.nodes[i].text) # << >>)

\* a distinctive word has at least this many characters
DistinctiveMinLen == 4

\* getDistinctiveWords
GetDistinctiveWords(text) ==
  SelectSeq(Tokenize(text), LAMBDA w : Len(w) >= DistinctiveMinLen /\ w \notin DistinctiveStopWords)

\* countWordMatches
CountWordMatches(words, text) == Cardinality({k \in 1..Len(words) : Includes(text, words[k])})

\* candidates closer than this to an earlier one are dropped
CandidateWindow == 1000

\* the number of chunk words whose occurrences become candidates
CandidateWordLimit == 5

\* the chunk-score region starts this far before the candidate
RegionBefore == 200

\* the previous anchor is looked for this far before the candidate
AnchorBefore == 1500

\* the next anchor is looked for from this far after the candidate
AnchorAfterSkip == 500

\* ... to this far after the candidate
AnchorAfterEnd == 2000

\* the least chunk score or context score of a usable candidate
MinCandidateScore == 2

\* the exact chunk text is looked for from this far before the matched node
SearchBefore == 100

\* ... to this far after its end
SearchAfter == 500

\* the part of the search text that is lowercased for the exact search
ChunkHeadLen == 200

\* the part of it that is looked for
ProbeLen == 50

\* the most characters of the concatenated text a chunk is taken to cover
ChunkSpanLimit == 500

\* the part of the search text the single-node fallback lowercases
FallbackHeadLen == 100

\* the least number of chunk words in the node of the last fallback
MinWordMatches == 2

\* the occurrences of the first chunk words, in the order the loops find them,
\* without those within CandidateWindow of an earlier candidate
RECURSIVE CandidateScan(_, _, _, _, _)
CandidateScan(lower, words, w, searchPos, cands) ==
  IF w > Len(words) THEN cands
  ELSE
    LET idx == IF searchPos < Len(lower) THEN IndexOfFrom(lower, words[w], searchPos) ELSE -1
    IN  IF idx = -1 THEN CandidateScan(lower, words, w + 1, 0, cands)
        ELSE
          LET existingNearby == \E c \in 1..Len(cands) :
                                  (IF cands[c] > idx THEN cands[c] - idx ELSE idx - cands[c]) < CandidateWindow
              next == IF existingNearby THEN cands ELSE Append(cands, idx)
          IN  IF next = cands THEN CandidateScan(lower, words, w, idx + Len(words[w]), cands)
              ELSE CandidateScan(lower, words, w, idx + Len(words[w]), next)

\* range.surroundContents(highlight) on the text node at index i from offset a to b
SurroundContents(nodes, i, a, b) ==
  LET node == nodes[i]
  IN  SubSeq(nodes, 1, i - 1)
        \o << [node EXCEPT !.text = Slice(node.text, 0, a)],
              [node EXCEPT !.text = Slice(node.text, a, b), !.depth = node.depth + 1],
              [node EXCEPT !.text = SliceFrom(node.text, b)] >>
        \o SubSeq(nodes, i + 1, Len(nodes))

\* the walker's items: the text nodes with text.trim(), each with its index among the
\* nodes and its text
WalkItems(nodes, textNodes) ==
  Tuple([k \in 1..Len(textNodes) |-> [node |-> textNodes[k], text |-> nodes[textNodes[k]].text]])

\* a variant that puts no separator between the items
ItemStartsNoSeparator(items) ==
  Tuple([k \in 1..Len(items) |-> Len(ConcatAll([j \in 1..(k - 1) |-> items[j].text]))])

\* fullConcatenatedText += item.text + ' ': the start of every item
ItemStarts(items) ==
  Tuple([k \in 1..Len(items) |-> Len(ConcatAll([j \in 1..(k - 1) |-> items[j].text \o <<" ">>]))])

\* fullConcatenatedText
FullConcatenatedText(items) == ConcatAll([k \in 1..Len(items) |-> items[k].text \o <<" ">>])

\* the distinctive words of an anchor, none if it is missing
AnchorWords(anchor) == IF Truthy(anchor) THEN GetDistinctiveWords(Val(anchor)) ELSE << >>

PrevAnchorWords(anchors) == IF IsNull(anchors) THEN << >> ELSE AnchorWords(Val(anchors).prevAnchor)

NextAnchorWords(anchors) == IF IsNull(anchors) THEN << >> ELSE AnchorWords(Val(anchors).nextAnchor)

\* every candidate with its chunk score and its context score
ScoreCandidates(fullLower, chunkWords, prevAnchorWords, nextAnchorWords, cands) ==
  Tuple([c \in 1..Len(cands) |->
           [pos |-> cands[c],
            chunkScore |->
              CountWordMatches(chunkWords,
                Slice(fullLower, Max2(0, cands[c] - RegionBefore), Min2(Len(fullLower), cands[c] + CandidateWindow))),
            contextScore |->
              CountWordMatches(prevAnchorWords, Slice(fullLower, Max2(0, cands[c] - AnchorBefore), cands[c]))
                + CountWordMatches(nextAnchorWords,
                    Slice(fullLower, cands[c] + AnchorAfterSkip, Min2(Len(fullLower), cands[c] + AnchorAfterEnd)))]])

\* a sorts before b: by context score, then by chunk score, both descending
SortsBefore(a, b) ==
  a.contextScore > b.contextScore \/ (a.contextScore = b.contextScore /\ a.chunkScore > b.chunkScore)

\* candidatePositions[0] after the sort, which is stable: the earliest candidate
\* that no other sorts before; -1 without candidates
BestCandidate(scored) ==
  First(1, Len(scored), LAMBDA c : \A a \in 1..Len(scored) : ~SortsBefore(scored[a], scored[c]))

\* the loop over fullNodeOffsets: the first item with start <= pos && end >= pos,
\* where end is fullConcatenatedText.length - 1 after the item and its separator
NodeAtOffset(items, startOf, pos) ==
  First(1, Len(items), LAMBDA k : startOf[k] <= pos /\ startOf[k] + Len(items[k].text) >= pos)

\* the first item that holds the position of the best candidate, if its scores suffice
BestMatchNode(scored, best, items, startOf) ==
  IF best # -1 /\ (scored[best].chunkScore >= MinCandidateScore \/ scored[best].contextScore >= MinCandidateScore)
  THEN NodeAtOffset(items, startOf, scored[best].pos)
  ELSE -1

\* the items the chunk covers, from chunkStartInFull over min(searchText.length, 500)
\* characters, or the best item alone when the exact search fails
ContextItems(items, startOf, searchText, bestMatchNodeIdx, searchStart, exactIdx) ==
  IF exactIdx # -1
  THEN [hit |-> {k \in 1..Len(items) :
                   /\ startOf[k] + Len(items[k].text) >= searchStart + exactIdx
                   /\ startOf[k] <= searchStart + exactIdx + Min2(Len(searchText), ChunkSpanLimit)},
        span |-> Some([start |-> searchStart + exactIdx,
                       end |-> searchStart + exactIdx + Min2(Len(searchText), ChunkSpanLimit)])]
  ELSE [hit |-> {bestMatchNodeIdx}, span |-> Null]

\* the parents of the items get the class sourcemapr-highlight-parent, and the
\* parent of one item is scrolled into view
MarkParents(clean, items, found, tier, scrollNode) ==
  [dom |-> [clean EXCEPT !.marked = clean.marked \cup {ParentOf(clean.nodes[items[k].node]) : k \in found.hit}],
   tier |-> tier,
   scroll |-> Some(ParentOf(clean.nodes[items[scrollNode].node])),
   span |-> found.span]

\* the exact search for the chunk's first 50 characters around the best item
ContextSearch(items, startOf, fullLower, searchText, bestMatchNodeIdx, searchStart) ==
  ContextItems(items, startOf, searchText, bestMatchNodeIdx, searchStart,
               IndexOf(Slice(fullLower, searchStart,
                             Min2(Len(fullLower), startOf[bestMatchNodeIdx] + Len(searchText) + SearchAfter)),
                       Slice(CollapseWhitespace(ToLower(Slice(searchText, 0, ChunkHeadLen))), 0, ProbeLen)))

\* the branch with a best item
ContextBranch(clean, items, startOf, fullLower, searchText, bestMatchNodeIdx) ==
  MarkParents(clean, items,
              ContextSearch(items, startOf, fullLower, searchText, bestMatchNodeIdx,
                            Max2(0, startOf[bestMatchNodeIdx] - SearchBefore)),
              "context", bestMatchNodeIdx)

\* the offset of the probe in every item's text with its white space collapsed
ProbeOffsets(items, probe) ==
  Tuple([k \in 1..Len(items) |-> IndexOf(CollapseWhitespace(ToLower(items[k].text)), probe)])

\* the last fallback: the first item with at least two of the chunk's words
WordsBranch(clean, items, words) ==
  IF words # -1 THEN MarkParents(clean, items, [hit |-> {words}, span |-> Null], "words", words)
  ELSE [dom |-> clean, tier |-> "unmatched", scroll |-> Null, span |-> Null]

\* the try block of the fallback within a single text node: the item is wrapped in
\* a highlight span from the match on and the span scrolled into view; when
\* range.surroundContents throws, the catch block scrolls to the parent of the item
WrapSingleNode(clean, items, searchText, matchIdx, single) ==
  IF clean.nodes[items[single].node].elem \in clean.unwrappable
  THEN [dom |-> clean, tier |-> "single-node-caught", scroll |-> Some(ParentOf(clean.nodes[items[single].node])),
        span |-> Null]
  ELSE [dom |-> [clean EXCEPT !.nodes =
                   SurroundContents(clean.nodes, items[single].node, matchIdx[single],
                                    matchIdx[single] + Min2(Len(searchText), Len(items[single].text) - matchIdx[single]))],
        tier |-> "single-node",
        scroll |-> Some("span"),
        span |-> Null]

\* the fallback within a single text node, for the first item that holds the probe
SingleNodeBranch(clean, items, searchText, chunkWords, matchIdx, single) ==
  IF single # -1
  THEN WrapSingleNode(clean, items, searchText, matchIdx, single)
  ELSE WordsBranch(clean, items,
                   First(1, Len(items), LAMBDA k : CountWordMatches(chunkWords, ToLower(items[k].text)) >= MinWordMatches))

\* the branch without a best item
FallbackSearch(clean, items, searchText, chunkWords, matchIdx) ==
  SingleNodeBranch(clean, items, searchText, chunkWords, matchIdx,
                   First(1, Len(items), LAMBDA k : matchIdx[k] # -1))

FallbackBranch(clean, items, searchText, chunkWords) ==
  FallbackSearch(clean, items, searchText, chunkWords,
                 ProbeOffsets(items, Slice(ToLower(Slice(searchText, 0, FallbackHeadLen)), 0, ProbeLen)))

\* the two branches
HighlightAt(clean, items, startOf, fullLower, searchText, chunkWords, bestMatchNodeIdx) ==
  IF bestMatchNodeIdx # -1
  THEN ContextBranch(clean, items, startOf, fullLower, searchText, bestMatchNodeIdx)
  ELSE FallbackBranch(clean, items, searchText, chunkWords)

\* the choice among the scored candidates
HighlightScored(clean, items, startOf, fullLower, searchText, chunkWords, scored) ==
  HighlightAt(clean, items, startOf, fullLower, searchText, chunkWords,
              BestMatchNode(scored, BestCandidate(scored), items, startOf))

\* the candidates: the occurrences of the first five distinctive words of the chunk
HighlightWords(clean, items, startOf, fullLower, searchText, chunkWords, anchors) ==
  HighlightScored(clean, items, startOf, fullLower, searchText, chunkWords,
                  ScoreCandidates(fullLower, chunkWords, PrevAnchorWords(anchors), NextAnchorWords(anchors),
                                  CandidateScan(fullLower, Slice(chunkWords, 0, CandidateWordLimit), 1, 0, << >>)))

\* the search over the walker's items
HighlightItems(clean, items, searchText, anchors) ==
  HighlightWords(clean, items, ItemStarts(items), ToLower(FullConcatenatedText(items)), searchText,
                 GetDistinctiveWords(searchText), anchors)

\* the pass over the document without its earlier highlights
HighlightClean(clean, searchText, anchors) ==
  IF searchText = << >> THEN [dom |-> clean, tier |-> "none", scroll |-> Null, span |-> Null]
  ELSE HighlightItems(clean, WalkItems(clean.nodes, TextNodes(clean)), searchText, anchors)

\* highlightInIframe past its guards: the document after the pass and the branch
\* that marked it
HighlightInIframe(dom, chunkText, anchors) ==
  HighlightClean(RemoveHighlights(dom), Trim(CollapseWhitespace(chunkText)), anchors)
\* ------------------------------------------------------------------------
\* Inputs of the parsed-text cascade: a document's page of parsed text and one of
\* its chunks (text and stored offsets), both put together from a few pieces
\* ------------------------------------------------------------------------

\* 100 characters without a sentence end
Lorem ==
  LET unit == <<"l","o","r","e","m"," ","i","p","s","u","m"," ">>
  IN  [i \in 1..96 |-> unit[((i - 1) % 12) + 1]] \o <<"d","a","t","a">>

\* the short pieces of a page: "ox" in both letter cases around a line break, a
\* sentence end without white space, a stop word with a regular expression special
\* character and a tab
TextPieces ==
  { <<"O","x"," ","\n","o","x"," ","o","x"," ">>,
    <<"f","o","x"," ","q","u","i","c","k",".">>,
    <<"w","h","a","t","?","\t">> }

\* the short pieces of a chunk text: a word of 2 characters, a word matched between
\* word boundaries, a word matched anywhere, a stop word
ChunkPieces ==
  { <<"o","x"," ">>,
    <<"f","o","x"," ">>,
    <<"q","u","i","c","k"," ">>,
    <<"w","h","a","t","?"," ">> }

MaxTextPieces == 2

RECURSIVE Concats(_, _)
Concats(pieces, n) == IF n = 0 THEN {<< >>} ELSE Concats(pieces, n - 1) \cup {s \o p : s \in Concats(pieces, n - 1), p \in pieces}

\* a page: up to MaxTextPieces pieces, the first of which may be the long one
PageTexts == Concats(TextPieces, MaxTextPieces) \cup {Lorem \o s : s \in Concats(TextPieces, MaxTextPieces - 1)}

\* a chunk text: nothing, a piece, or two pieces, the first of which may be the long one
ChunkTexts == {p \o q : p \in ChunkPieces \cup {<< >>, Lorem}, q \in ChunkPieces \cup {<< >>}}

\* a chunk's stored offsets: none, in range on a page of two pieces and out of range
\* on a page of one, inverted
IndexChoices ==
  { Null,
    Some([start |-> 2, end |-> 12]),
    Some([start |-> 2, end |-> 1]) }


\* the page and the chunk of the end-to-end example: the same wording twice
FoxPage == <<"T","h","e"," ","q","u","i","c","k"," ","b","r","o","w","n"," ","f","o","x","."," ","T","h","e"," ","l","a","z","y"," ","d","o","g"," ","s","l","e","e","p","s","."," ","T","h","e"," ","q","u","i","c","k"," ","b","r","o","w","n"," ","f","o","x"," ","j","u","m","p","s"," ","a","g","a","i","n",".">>

FoxChunk == <<"q","u","i","c","k"," ","b","r","o","w","n"," ","f","o","x">>

\* a chunk of 150 characters and a page that holds its first 80 characters only
TruncatedChunk == Lorem \o [i \in 1..50 |-> Lorem[i]]

TruncatedPage == [i \in 1..80 |-> Lorem[i]] \o <<".">>

\* a chunk that shares two words of 2 characters with a short sentence, alone on the
\* page and before a long sentence without any of the chunk's words
SparseChunk == <<"o","x"," ","u","p"," ","g","o","n","e">>

SparsePage == <<"O","x"," ","i","s"," ","u","p",".">>

SparseLongPage == <<"O","x"," ","i","s"," ","u","p","."," ">> \o Lorem

\* a chunk of two words that are also words of the mark tag, on a page that holds
\* them in the other order
TagWordChunk == <<"m","a","r","k"," ","c","l","a","s","s">>

TagWordPage == <<"A"," ","c","l","a","s","s"," ","t","o"," ","m","a","r","k">>

\* the pages and chunks of the examples
Examples ==
  { [text |-> FoxPage, chunk |-> [text |-> FoxChunk, idx |-> Null]],
    [text |-> TruncatedPage, chunk |-> [text |-> TruncatedChunk, idx |-> Null]],
    [text |-> SparsePage, chunk |-> [text |-> SparseChunk, idx |-> Null]],
    [text |-> SparseLongPage, chunk |-> [text |-> SparseChunk, idx |-> Null]],
    [text |-> TagWordPage, chunk |-> [text |-> TagWordChunk, idx |-> Null]] }
\* ------------------------------------------------------------------------
\* Documents of the highlight session: a PDF of two pages, an HTML file and a text
\* file of two pages, with their parsed text, and the chunks listed for them
\* ------------------------------------------------------------------------

Documents == {"report.pdf", "guide.html", "notes.txt"}

\* filePath.toLowerCase().split('.').pop()
FileExt(d) == IF d = "report.pdf" THEN "pdf" ELSE IF d = "guide.html" THEN "html" ELSE "txt"

\* the spans of the text layer of each page of the PDF
PdfPages(d) ==
  IF d = "report.pdf"
  THEN << << <<"S","o","l","a","r"," ","p","a","n","e","l","s"," ">>, <<"c","o","n","v","e","r","t"," ","l","i","g","h","t"," ">>, <<"i","n","t","o"," ","p","o","w","e","r","."," ">>, <<"W","i","n","d"," ","t","u","r","b","i","n","e","s"," ">>,
             <<"s","p","i","n"," ","f","a","s","t"," ","i","n"," ">>, <<"s","t","r","o","n","g"," ","c","o","a","s","t","a","l"," ">>, <<"w","e","a","t","h","e","r"," ","a","n","d"," ">>, <<"f","e","e","d"," ","t","h","e"," ","g","r","i","d",".">> >>,
          << <<"S","t","o","r","a","g","e"," ","b","a","n","k","s"," ">>, <<"h","o","l","d"," ","p","o","w","e","r",".">> >> >>
  ELSE << >>

\* the text nodes of the body of the HTML file: the same sentence twice, the second
\* time between the sentences that the anchors of its chunk quote; marked are the
\* elements with the class sourcemapr-highlight-parent, unwrappable the elements in
\* whose text range.surroundContents throws
IframeBody(d) ==
  [nodes |-> << [text |-> <<"S","o","l","a","r"," ","p","a","n","e","l","s">>, elem |-> "p1", depth |-> 0],
                [text |-> <<"\n">>, elem |-> "body", depth |-> 0],
                [text |-> <<"E","a","r","l","i","e","r"," ","n","o","t","e","s">>, elem |-> "p2", depth |-> 0],
                [text |-> <<"S","o","l","a","r"," ","p","a","n","e","l","s">>, elem |-> "p3", depth |-> 0],
                [text |-> <<"L","a","t","e","r"," ","p","a","g","e","s">>, elem |-> "p4", depth |-> 0] >>,
   marked |-> {}, unwrappable |-> {}]

\* parsedData.text.split('\n\n--- PAGE BREAK ---\n\n')
ParsedPages(d) ==
  IF d = "report.pdf"
  THEN << <<"S","o","l","a","r"," ","p","a","n","e","l","s"," ","c","o","n","v","e","r","t"," ","l","i","g","h","t"," ","i","n","t","o"," ","p","o","w","e","r",".">>, <<"S","t","o","r","a","g","e"," ","b","a","n","k","s"," ","h","o","l","d"," ","p","o","w","e","r",".">> >>
  ELSE IF d = "guide.html"
  THEN << <<"S","o","l","a","r"," ","p","a","n","e","l","s","\n","E","a","r","l","i","e","r"," ","n","o","t","e","s","\n","S","o","l","a","r"," ","p","a","n","e","l","s","\n","L","a","t","e","r"," ","p","a","g","e","s">> >>
  ELSE IF d = "notes.txt"
  THEN << <<"T","i","d","e","s"," ","r","i","s","e"," ","a","t"," ","n","o","o","n",".">>, <<"W","i","n","d","s"," ","f","a","l","l"," ","a","t"," ","d","u","s","k",".">> >>
  ELSE << << >> >>

\* the chunks of a document: text, stored offsets, page number and anchors
DocChunks(d) ==
  IF d = "report.pdf"
  THEN { [text |-> <<"p","a","n","e","l","s"," ","c","o","n","v","e","r","t"," ","l","i","g","h","t">>, idx |-> Some([start |-> 6, end |-> 26]), page |-> Some(1), anchors |-> Null],
         [text |-> <<"W","i","n","d"," "," ","t","u","r","b","i","n","e","s"," ","s","p","i","n">>, idx |-> Null, page |-> Some(1), anchors |-> Null],
         [text |-> <<"c","o","a","s","t","a","l"," ","t","u","r","b","i","n","e","s"," ","f","e","e","d"," ","p","o","w","e","r">>, idx |-> Null, page |-> Some(1), anchors |-> Null],
         [text |-> <<"h","o","l","d"," ","p","o","w","e","r">>, idx |-> Null, page |-> Some(2), anchors |-> Null] }
  ELSE IF d = "guide.html"
  THEN { [text |-> <<"S","o","l","a","r"," ","p","a","n","e","l","s">>, idx |-> Null, page |-> Null,
          anchors |-> Some([prevAnchor |-> Some(<<"E","a","r","l","i","e","r"," ","n","o","t","e","s">>),
                            nextAnchor |-> Some(<<"L","a","t","e","r"," ","p","a","g","e","s">>)])],
         [text |-> <<"L","a","t","e","r"," ","p","a","g","e","s">>, idx |-> Null, page |-> Null, anchors |-> Null],
         [text |-> <<"n","o","t","e","s">>, idx |-> Null, page |-> Null,
          anchors |-> Some([prevAnchor |-> Some(<<"S","e","e"," ","a","b","o","v","e">>), nextAnchor |-> Null])] }
  ELSE IF d = "notes.txt"
  THEN { [text |-> <<"T","i","d","e","s"," ","r","i","s","e">>, idx |-> Some([start |-> 0, end |-> Len(<<"T","i","d","e","s"," ","r","i","s","e">>)]), page |-> Some(1),
          anchors |-> Null] }
  ELSE {}

\* the documents the query retrieved chunks of
Retrieved == {"report.pdf", "guide.html"}

\* the sources of a query: chunk.doc_id, chunk.page_number ?? 1 and chunk.text
Sources ==
  UNION {{[doc |-> d, page |-> IF IsNull(c.page) THEN 1 ELSE Val(c.page), text |-> Some(c.text)] : c \in DocChunks(d)} :
           d \in Retrieved}

\* ------------------------------------------------------------------------
\* State
\* ------------------------------------------------------------------------

VARIABLES
  docText,             \* cascade input: the parsed text of the document's page
  chunk,               \* cascade input: the chunk in the list, [text, idx]
  failing,             \* cascade input: the strings whose pattern throws in new RegExp or replace
  currentPageText,     \* the page of parsed text on display ("" until there is one)
  highlightChunkText,  \* store: string | null
  highlightChunkIdx,   \* store: {start, end} | null
  highlightAnchors,    \* store: {prevAnchor, nextAnchor} | null
  viewerParsed,        \* DocumentViewer: what highlightTextInContent(currentPageText) renders
  sidebarParsed,       \* SourceSidebar: what highlightTextInContent(currentPageText) renders
  viewerPages,         \* DocumentViewer: what the parsed view renders, one highlightTextInContent(pageText) per page
  view,                \* the route: "list", "viewer" (documents/:docId) or "queries"
  viewerDocId,         \* the docId of the documents route | null
  sidebarDocId,        \* store: string | null
  currentPage,         \* store
  sidebarPage,         \* store
  sidebarViewMode,     \* store: "parsed" | "source"
  viewMode,            \* DocumentViewer state: "split" | "pdf" | "parsed" | "rendered"
  pdfLoading,          \* state of the mounted component
  iframeLoaded,        \* SourceSidebar state
  pdfDocLoaded,        \* react-pdf: the mounted Document has loaded its file
  pdfLayer,            \* the page whose text layer is in the DOM | null
  pdfMarks,            \* the spans of the text layer with the class pdf-chunk-highlight
  iframeDom,           \* the body of the loaded iframe document | null
  pdfTimer,            \* the pending timer of the PDF effect | null
  iframeTimer,         \* the pending timer of the iframe effect | null
  lastPass,            \* history: the last pass over the DOM now on display | null
  cleared              \* history: the highlight was cleared and no chunk selected since

cascadeVars == <<docText, chunk, currentPageText, highlightChunkText, highlightChunkIdx, viewerParsed, sidebarParsed>>

storeVars == <<highlightChunkText, highlightChunkIdx, highlightAnchors, sidebarDocId, currentPage, sidebarPage, sidebarViewMode>>

sessionVars == <<viewerPages, highlightAnchors, view, viewerDocId, sidebarDocId, currentPage, sidebarPage, sidebarViewMode, viewMode,
                 pdfLoading, iframeLoaded, pdfDocLoaded, pdfLayer, pdfMarks, iframeDom, pdfTimer, iframeTimer,
                 lastPass, cleared>>

vars == <<docText, chunk, failing, currentPageText, highlightChunkText, highlightChunkIdx, highlightAnchors, viewerParsed,
          sidebarParsed, viewerPages, view, viewerDocId, sidebarDocId, currentPage, sidebarPage, sidebarViewMode, viewMode,
          pdfLoading, iframeLoaded, pdfDocLoaded, pdfLayer, pdfMarks, iframeDom, pdfTimer, iframeTimer,
          lastPass, cleared>>

\* both call sites pass the page text alone: pageStartOffset keeps its default
DefaultPageStartOffset == 0

\* the store's initialState and no component mounted
SessionIdle ==
  /\ viewerPages = << >>
  /\ highlightAnchors = Null
  /\ view = "list"
  /\ viewerDocId = Null
  /\ sidebarDocId = Null
  /\ currentPage = 1
  /\ sidebarPage = 1
  /\ sidebarViewMode = "parsed"
  /\ viewMode = "split"
  /\ pdfLoading = TRUE
  /\ iframeLoaded = FALSE
  /\ pdfDocLoaded = FALSE
  /\ pdfLayer = Null
  /\ pdfMarks = {}
  /\ iframeDom = Null
  /\ pdfTimer = Null
  /\ iframeTimer = Null
  /\ lastPass = Null
  /\ cleared = FALSE

\* ------------------------------------------------------------------------
\* The parsed-text cascade on its own: one page, one chunk, and the parsed pane of
\* both components rendered from the same store fields
\* ------------------------------------------------------------------------

\* both parsed panes: each component's highlightTextInContent after the tiers they share
BothPanes(thrown, early, text, chunkText) ==
  [viewer |-> ViewerAfter(thrown, early, text, chunkText), sidebar |-> SidebarAfter(thrown, early, text, chunkText)]

\* the panes are rendered
RenderBoth(panes) ==
  /\ viewerParsed' = panes.viewer
  /\ sidebarParsed' = panes.sidebar

\* the render that follows every change of the store or of the page
RenderParsed(text, chunkText, idx) ==
  RenderBoth(BothPanes(failing, EarlyTiers(failing, text, chunkText, idx, DefaultPageStartOffset), text, chunkText))

CascadeInit ==
  /\ \/ docText \in PageTexts /\ chunk \in [text : ChunkTexts, idx : IndexChoices]
     \/ \E e \in Examples : docText = e.text /\ chunk = e.chunk
  /\ failing = {}
  /\ currentPageText = << >>
  /\ highlightChunkText = Null
  /\ highlightChunkIdx = Null
  /\ viewerParsed = Unmatched(<< >>)
  /\ sidebarParsed = Unmatched(<< >>)
  /\ SessionIdle

\* useParsedDocument delivers the page text
ParsedLoaded ==
  /\ currentPageText # docText
  /\ currentPageText' = docText
  /\ UNCHANGED <<docText, chunk, failing, highlightChunkText, highlightChunkIdx>>
  /\ UNCHANGED sessionVars
  /\ RenderParsed(docText, highlightChunkText, highlightChunkIdx)

\* store.setHighlight(text, indices)
SetHighlight(text, indices) ==
  /\ highlightChunkText' = Some(text)
  /\ highlightChunkIdx' = indices
  /\ UNCHANGED <<docText, chunk, failing, currentPageText>>
  /\ UNCHANGED sessionVars
  /\ RenderParsed(currentPageText, Some(text), indices)

\* the chunk is selected
ChunkClick == SetHighlight(chunk.text, chunk.idx)

\* store.clearHighlight()
ClearHighlight ==
  /\ ~IsNull(highlightChunkText)
  /\ highlightChunkText' = Null
  /\ highlightChunkIdx' = Null
  /\ UNCHANGED <<docText, chunk, failing, currentPageText>>
  /\ UNCHANGED sessionVars
  /\ RenderParsed(currentPageText, Null, Null)

CascadeNext ==
  \/ ParsedLoaded
  \/ ChunkClick
  \/ ClearHighlight

SpecCascade == CascadeInit /\ [][CascadeNext]_vars

\* ------------------------------------------------------------------------
\* The highlight session: the routes that mount DocumentViewer and SourceSidebar,
\* the store operations their handlers call, their effects and timers, and the
\* DOM of the PDF text layer and of the iframe
\* ------------------------------------------------------------------------

\* the component that is mounted
Surface ==
  IF view = "viewer" THEN "viewer"
  ELSE IF view = "queries" /\ ~IsNull(sidebarDocId) THEN "sidebar"
  ELSE "none"

\* the document it shows
Doc ==
  IF Surface = "viewer" THEN Val(viewerDocId)
  ELSE IF Surface = "sidebar" THEN Val(sidebarDocId)
  ELSE ""

IsPdf == FileExt(Doc) = "pdf"

IsHtml == FileExt(Doc) = "html"

\* DocumentViewer: isPdf ? numPages : pages.length || 1; SourceSidebar: pages.length || 1
TotalPages ==
  IF Surface = "viewer" /\ IsPdf THEN (IF pdfLoading THEN 0 ELSE Len(PdfPages(Doc)))
  ELSE Len(ParsedPages(Doc))

\* Math.min(Math.max(1, page), totalPages || 1)
SafePage ==
  LET page == IF Surface = "viewer" THEN currentPage ELSE sidebarPage
  IN  Min2(Max2(1, page), IF TotalPages = 0 THEN 1 ELSE TotalPages)

\* pages[safePage - 1] ?? ''
PageText ==
  IF Surface = "none" \/ SafePage > Len(ParsedPages(Doc)) THEN << >> ELSE ParsedPages(Doc)[SafePage]

\* pdfContainerRef.current is set
PdfContainer ==
  \/ Surface = "viewer" /\ viewMode \in {"split", "pdf"}
  \/ Surface = "sidebar" /\ sidebarViewMode = "source"

\* the react-pdf Document that is mounted (the split and the pdf view of
\* DocumentViewer render it at the same place) | null
PdfElement == IF PdfContainer /\ IsPdf THEN <<Surface, Doc>> ELSE Null

\* the iframe that is mounted and the file it shows | null
IframeElement ==
  IF Surface = "viewer" /\ IsHtml /\ viewMode \in {"split", "pdf", "rendered"} THEN <<Surface, Doc, viewMode>>
  ELSE IF Surface = "sidebar" /\ IsHtml /\ sidebarViewMode = "source" THEN <<Surface, Doc, sidebarViewMode>>
  ELSE Null

\* the dependencies of the effect "Apply PDF highlighting after page renders"
PdfDeps ==
  IF Surface = "viewer" THEN <<"viewer", highlightChunkText, pdfLoading, IsPdf, currentPage>>
  ELSE IF Surface = "sidebar" THEN <<"sidebar", highlightChunkText, pdfLoading, IsPdf, sidebarPage, sidebarViewMode>>
  ELSE <<"none">>

\* its condition
PdfCond ==
  \/ Surface = "viewer" /\ Truthy(highlightChunkText) /\ ~pdfLoading /\ IsPdf
  \/ Surface = "sidebar" /\ Truthy(highlightChunkText) /\ ~pdfLoading /\ IsPdf /\ sidebarViewMode = "source"

\* the timer it sets: highlightPdfText with the chunk text of this render, and the
\* page and view mode of the render
PdfClosure ==
  [chunkText |-> highlightChunkText,
   page |-> IF Surface = "viewer" THEN currentPage ELSE sidebarPage,
   mode |-> IF Surface = "viewer" THEN viewMode ELSE sidebarViewMode]

\* the dependencies of the iframe effect
IframeDeps ==
  IF Surface = "viewer" THEN <<"viewer", highlightChunkText, highlightAnchors, IsHtml, viewMode>>
  ELSE IF Surface = "sidebar"
  THEN <<"sidebar", sidebarViewMode, iframeLoaded, highlightChunkText, IsHtml, highlightAnchors>>
  ELSE <<"none">>

\* its condition
IframeCond ==
  \/ Surface = "viewer" /\ Truthy(highlightChunkText) /\ IsHtml /\ ~IsNull(IframeElement)
  \/ Surface = "sidebar" /\ sidebarViewMode = "source" /\ iframeLoaded /\ Truthy(highlightChunkText) /\ IsHtml

\* the timer it sets
IframeClosure ==
  [chunkText |-> highlightChunkText,
   anchors |-> highlightAnchors,
   page |-> IF Surface = "viewer" THEN currentPage ELSE sidebarPage,
   mode |-> IF Surface = "viewer" THEN viewMode ELSE sidebarViewMode]

\* what the parsed panes are rendered from
ParsedInputs == <<Surface, viewMode, sidebarViewMode, PageText, highlightChunkText, highlightChunkIdx>>

\* a component that mounts starts with pdfLoading = true and iframeLoaded = false;
\* SourceSidebar resets iframeLoaded whenever sidebarDocId or sidebarViewMode changes
ComponentStateAfter ==
  /\ pdfLoading' = IF Surface' # Surface THEN TRUE ELSE pdfLoading
  /\ iframeLoaded' = IF /\ Surface' = "sidebar"
                        /\ Surface = "sidebar"
                        /\ sidebarDocId' = sidebarDocId
                        /\ sidebarViewMode' = sidebarViewMode
                     THEN iframeLoaded
                     ELSE FALSE

\* the DOM after the render: a Document or iframe that was unmounted or shows
\* another file starts to load, a Page that shows another page renders anew
DomAfter ==
  /\ pdfDocLoaded' = (~IsNull(PdfElement') /\ PdfElement' = PdfElement /\ pdfDocLoaded)
  /\ pdfLayer' = IF pdfDocLoaded' /\ ~IsNull(pdfLayer) /\ Val(pdfLayer) = SafePage' THEN pdfLayer ELSE Null
  /\ pdfMarks' = IF pdfLayer' = pdfLayer THEN pdfMarks ELSE {}
  /\ iframeDom' = IF ~IsNull(IframeElement') /\ IframeElement' = IframeElement THEN iframeDom ELSE Null
  /\ lastPass' = IF pdfLayer' = pdfLayer /\ iframeDom' = iframeDom THEN lastPass ELSE Null

\* the effects after the render: an effect whose dependencies changed clears its
\* timer and, if its condition holds, sets a new one; renewed tells that the
\* handler stored a new anchors object
TimersAfter(renewed) ==
  /\ pdfTimer' = IF PdfDeps' = PdfDeps THEN pdfTimer
                 ELSE IF PdfCond' THEN Some(PdfClosure') ELSE Null
  /\ iframeTimer' = IF IframeDeps' = IframeDeps /\ ~renewed THEN iframeTimer
                    ELSE IF IframeCond' THEN Some(IframeClosure') ELSE Null

\* the page texts of the session
SessionTexts == {<< >>} \cup UNION {{ParsedPages(d)[p] : p \in 1..Len(ParsedPages(d))} : d \in Documents}

\* the values highlightChunkText and highlightChunkIdx take together
SessionHighlights ==
  {[text |-> Null, idx |-> Null]}
    \cup UNION {{[text |-> Some(c.text), idx |-> c.idx] : c \in DocChunks(d)} : d \in Documents}
    \cup UNION {{[text |-> Some(c.text), idx |-> Null] : c \in DocChunks(d)} : d \in Documents}

\* a function with every value computed
Forced(f) == f @@ f

\* highlightTextInContent(currentPageText) of both components, which depends on the
\* page text and on the two store fields only, for the texts and highlights of the
\* session
ParsedPanes ==
  Forced([k \in [text : SessionTexts, highlight : SessionHighlights] |->
            BothPanes({}, EarlyTiers({}, k.text, k.highlight.text, k.highlight.idx, DefaultPageStartOffset),
                      k.text, k.highlight.text)])

\* the parsed view of DocumentViewer: pages.map((pageText, i) => ...
\* highlightTextInContent(pageText)), every page of the document
RenderPages(panes, pages, highlight) ==
  viewerPages' = IF Surface' = "viewer" /\ viewMode' = "parsed"
                 THEN [p \in 1..Len(pages) |-> panes[[text |-> pages[p], highlight |-> highlight]].viewer]
                 ELSE << >>

\* the parsed pane of the mounted component is rendered: DocumentViewer shows the
\* current page in the split view, SourceSidebar in the parsed view
RenderPanes(panes, key) ==
  /\ viewerParsed' = IF Surface' = "viewer" /\ viewMode' = "split"
                     THEN panes[key].viewer ELSE Unmatched(<< >>)
  /\ sidebarParsed' = IF Surface' = "sidebar" /\ sidebarViewMode' = "parsed"
                      THEN panes[key].sidebar ELSE Unmatched(<< >>)

\* the parsed panes after the render
ParsedAfter ==
  /\ currentPageText' = PageText'
  /\ IF ParsedInputs' = ParsedInputs THEN UNCHANGED <<viewerParsed, sidebarParsed>>
     ELSE RenderPanes(ParsedPanes,
                      [text |-> PageText', highlight |-> [text |-> highlightChunkText', idx |-> highlightChunkIdx']])
  /\ RenderPages(ParsedPanes, ParsedPages(Doc'), [text |-> highlightChunkText', idx |-> highlightChunkIdx'])

\* the render and the effects that follow a handler
Commit(renewed) ==
  /\ ComponentStateAfter
  /\ DomAfter
  /\ TimersAfter(renewed)
  /\ ParsedAfter
  /\ UNCHANGED <<docText, chunk, failing>>

SessionInit ==
  /\ docText = << >>
  /\ chunk = [text |-> << >>, idx |-> Null]
  /\ failing = {}
  /\ currentPageText = << >>
  /\ highlightChunkText = Null
  /\ highlightChunkIdx = Null
  /\ viewerParsed = Unmatched(<< >>)
  /\ sidebarParsed = Unmatched(<< >>)
  /\ SessionIdle

\* ---- routes ----

\* a query's page is opened: QueryDetail renders {sidebarDocId && <SourceSidebar />}
GoToQueries ==
  /\ view = "list"
  /\ view' = "queries"
  /\ UNCHANGED <<viewerDocId, viewMode, cleared>>
  /\ UNCHANGED storeVars
  /\ Commit(FALSE)

\* the default view mode DocumentViewer sets for the file type
DefaultViewMode(d) ==
  IF FileExt(d) = "html" THEN "rendered" ELSE IF FileExt(d) = "pdf" THEN "split" ELSE "parsed"

\* a document is opened from the list: <Route path=":docId" element={<DocumentViewer />} />
GoToDocument(d) ==
  /\ view = "list"
  /\ view' = "viewer"
  /\ viewerDocId' = Some(d)
  /\ viewMode' = DefaultViewMode(d)
  /\ UNCHANGED cleared
  /\ UNCHANGED storeVars
  /\ Commit(FALSE)

\* the user leaves the page through the navigation; the store keeps its fields
LeaveView ==
  /\ view # "list"
  /\ view' = "list"
  /\ viewerDocId' = Null
  /\ viewMode' = "split"
  /\ UNCHANGED cleared
  /\ UNCHANGED storeVars
  /\ Commit(FALSE)

\* ---- DocumentViewer ----

\* handleBack: clearHighlight() and navigate to the list
HandleBack ==
  /\ Surface = "viewer"
  /\ highlightChunkText' = Null
  /\ highlightChunkIdx' = Null
  /\ highlightAnchors' = Null
  /\ view' = "list"
  /\ viewerDocId' = Null
  /\ viewMode' = "split"
  /\ cleared' = TRUE
  /\ UNCHANGED <<sidebarDocId, currentPage, sidebarPage, sidebarViewMode>>
  /\ Commit(FALSE)

\* handleChunkClick: setHighlight(text, indices, htmlIndices, anchors) with a new
\* anchors object when the chunk has an anchor, and setCurrentPage(pageNum)
HandleChunkClick(c) ==
  /\ Surface = "viewer"
  /\ c \in DocChunks(Doc)
  /\ highlightChunkText' = Some(c.text)
  /\ highlightChunkIdx' = c.idx
  /\ highlightAnchors' = c.anchors
  /\ currentPage' = IF IsNull(c.page) THEN currentPage ELSE Val(c.page)
  /\ cleared' = FALSE
  /\ UNCHANGED <<view, viewerDocId, sidebarDocId, sidebarPage, sidebarViewMode, viewMode>>
  /\ Commit(~IsNull(c.anchors))

\* the greatest page number typed into the page input
MaxPageInput == 3

\* the page buttons and the page input, shown when there is more than one page
SetCurrentPage(page) ==
  /\ Surface = "viewer"
  /\ TotalPages > 1
  /\ viewMode \in {"split", "pdf", "parsed"}
  /\ page # currentPage
  /\ currentPage' = page
  /\ UNCHANGED <<highlightChunkText, highlightChunkIdx, highlightAnchors, sidebarDocId, sidebarPage, sidebarViewMode>>
  /\ UNCHANGED <<view, viewerDocId, viewMode, cleared>>
  /\ Commit(FALSE)

\* the view mode buttons offered for the file type
ViewModeButtons == IF IsPdf THEN {"split", "pdf", "parsed"} ELSE IF IsHtml THEN {"rendered", "parsed"} ELSE {"parsed"}

SetViewMode(mode) ==
  /\ Surface = "viewer"
  /\ mode \in ViewModeButtons
  /\ mode # viewMode
  /\ viewMode' = mode
  /\ UNCHANGED storeVars
  /\ UNCHANGED <<view, viewerDocId, cleared>>
  /\ Commit(FALSE)

\* onDocumentLoadSuccess: setNumPages(pages), setPdfLoading(false)
OnDocumentLoadSuccess ==
  /\ Surface = "viewer"
  /\ ~IsNull(PdfElement)
  /\ ~pdfDocLoaded
  /\ pdfDocLoaded' = TRUE
  /\ pdfLoading' = FALSE
  /\ UNCHANGED storeVars
  /\ UNCHANGED <<view, viewerDocId, viewMode, cleared, iframeLoaded, pdfLayer, pdfMarks, iframeDom, lastPass>>
  /\ TimersAfter(FALSE)
  /\ ParsedAfter
  /\ UNCHANGED <<docText, chunk, failing>>

\* the iframe finishes loading (DocumentViewer has no load handler)
ViewerIframeLoads ==
  /\ Surface = "viewer"
  /\ ~IsNull(IframeElement)
  /\ IsNull(iframeDom)
  /\ iframeDom' = Some(IframeBody(Doc))
  /\ UNCHANGED storeVars
  /\ UNCHANGED <<view, viewerDocId, viewMode, cleared, pdfLoading, iframeLoaded, pdfDocLoaded, pdfLayer, pdfMarks,
                 pdfTimer, iframeTimer, lastPass>>
  /\ UNCHANGED <<docText, chunk, failing, currentPageText, viewerParsed, sidebarParsed, viewerPages>>

\* ---- SourceSidebar ----

\* a variant that resets the view mode of the sidebar to 'parsed' at every call
OpenSourceSidebarResetsMode(source) ==
  /\ view = "queries"
  /\ sidebarDocId' = Some(source.doc)
  /\ sidebarPage' = source.page
  /\ highlightChunkText' = source.text
  /\ highlightChunkIdx' = Null
  /\ highlightAnchors' = Null
  /\ sidebarViewMode' = "parsed"
  /\ cleared' = IF Truthy(source.text) THEN FALSE ELSE cleared
  /\ UNCHANGED <<view, viewerDocId, currentPage, viewMode>>
  /\ Commit(FALSE)

\* store.openSourceSidebar(docId, pageNumber ?? 1, chunkText ?? undefined), as
\* QueryDetail calls it
OpenSourceSidebar(source) ==
  /\ view = "queries"
  /\ sidebarDocId' = Some(source.doc)
  /\ sidebarPage' = source.page
  /\ highlightChunkText' = source.text
  /\ highlightChunkIdx' = Null
  /\ highlightAnchors' = Null
  /\ sidebarViewMode' = IF IsNull(sidebarDocId) THEN "parsed" ELSE sidebarViewMode
  /\ cleared' = IF Truthy(source.text) THEN FALSE ELSE cleared
  /\ UNCHANGED <<view, viewerDocId, currentPage, viewMode>>
  /\ Commit(FALSE)

\* a variant that clears the highlight fields and keeps the sidebar open
CloseSourceSidebarKeepOpen ==
  /\ Surface = "sidebar"
  /\ highlightChunkText' = Null
  /\ highlightChunkIdx' = Null
  /\ highlightAnchors' = Null
  /\ cleared' = TRUE
  /\ UNCHANGED <<sidebarDocId, view, viewerDocId, currentPage, sidebarPage, sidebarViewMode, viewMode>>
  /\ Commit(FALSE)

\* store.closeSourceSidebar()
CloseSourceSidebar ==
  /\ Surface = "sidebar"
  /\ sidebarDocId' = Null
  /\ highlightChunkText' = Null
  /\ highlightChunkIdx' = Null
  /\ highlightAnchors' = Null
  /\ cleared' = TRUE
  /\ UNCHANGED <<view, viewerDocId, currentPage, sidebarPage, sidebarViewMode, viewMode>>
  /\ Commit(FALSE)

\* handleOpenFullView: closeSourceSidebar() and navigate to the document
HandleOpenFullView ==
  /\ Surface = "sidebar"
  /\ sidebarDocId' = Null
  /\ highlightChunkText' = Null
  /\ highlightChunkIdx' = Null
  /\ highlightAnchors' = Null
  /\ cleared' = TRUE
  /\ view' = "viewer"
  /\ viewerDocId' = sidebarDocId
  /\ viewMode' = DefaultViewMode(Val(sidebarDocId))
  /\ UNCHANGED <<currentPage, sidebarPage, sidebarViewMode>>
  /\ Commit(FALSE)

\* the view mode buttons of the sidebar
SidebarViewModeButtons == IF IsPdf \/ IsHtml THEN {"parsed", "source"} ELSE {"parsed"}

SetSidebarViewMode(mode) ==
  /\ Surface = "sidebar"
  /\ mode \in SidebarViewModeButtons
  /\ mode # sidebarViewMode
  /\ sidebarViewMode' = mode
  /\ UNCHANGED <<highlightChunkText, highlightChunkIdx, highlightAnchors, sidebarDocId, currentPage, sidebarPage>>
  /\ UNCHANGED <<view, viewerDocId, viewMode, cleared>>
  /\ Commit(FALSE)

\* the page buttons: setSidebarPage(safePage - 1), setSidebarPage(safePage + 1)
SetSidebarPage(page) ==
  /\ Surface = "sidebar"
  /\ \/ page = SafePage - 1 /\ SafePage > 1
     \/ page = SafePage + 1 /\ SafePage < TotalPages
  /\ sidebarPage' = page
  /\ UNCHANGED <<highlightChunkText, highlightChunkIdx, highlightAnchors, sidebarDocId, currentPage, sidebarViewMode>>
  /\ UNCHANGED <<view, viewerDocId, viewMode, cleared>>
  /\ Commit(FALSE)

\* onPdfLoadSuccess: setPdfNumPages(numPages), setPdfLoading(false)
OnPdfLoadSuccess ==
  /\ Surface = "sidebar"
  /\ ~IsNull(PdfElement)
  /\ ~pdfDocLoaded
  /\ pdfDocLoaded' = TRUE
  /\ pdfLoading' = FALSE
  /\ UNCHANGED storeVars
  /\ UNCHANGED <<view, viewerDocId, viewMode, cleared, iframeLoaded, pdfLayer, pdfMarks, iframeDom, lastPass>>
  /\ TimersAfter(FALSE)
  /\ ParsedAfter
  /\ UNCHANGED <<docText, chunk, failing>>

\* handleIframeLoad: setIframeLoaded(true)
HandleIframeLoad ==
  /\ Surface = "sidebar"
  /\ ~IsNull(IframeElement)
  /\ IsNull(iframeDom)
  /\ iframeDom' = Some(IframeBody(Doc))
  /\ iframeLoaded' = TRUE
  /\ UNCHANGED storeVars
  /\ UNCHANGED <<view, viewerDocId, viewMode, cleared, pdfLoading, pdfDocLoaded, pdfLayer, pdfMarks, lastPass>>
  /\ TimersAfter(FALSE)
  /\ UNCHANGED <<docText, chunk, failing, currentPageText, viewerParsed, sidebarParsed, viewerPages>>

\* ---- react-pdf ----

\* <Page pageNumber={safePage} renderTextLayer={true} />: the text layer of the page
\* is rendered
PageRendered ==
  /\ pdfDocLoaded
  /\ IsNull(pdfLayer)
  /\ pdfLayer' = Some(SafePage)
  /\ UNCHANGED storeVars
  /\ UNCHANGED <<view, viewerDocId, viewMode, cleared, pdfLoading, iframeLoaded, pdfDocLoaded, pdfMarks, iframeDom,
                 pdfTimer, iframeTimer, lastPass>>
  /\ UNCHANGED <<docText, chunk, failing, currentPageText, viewerParsed, sidebarParsed, viewerPages>>

\* ---- timers ----

\* the spans of the text layer in the DOM | null
TextLayer == IF IsNull(pdfLayer) THEN Null ELSE Some(PdfPages(Doc)[Val(pdfLayer)])

\* the record of a pass that reached the DOM: what it ran with, the branch that
\* marked, the element it scrolled into view, the span it located, whether the pass before it on this DOM ran with the same chunk, and the
\* chunk text of that pass
PassRecord(path, chunkText, anchors, tier, scroll, span) ==
  Some([path |-> path, chunkText |-> chunkText, anchors |-> anchors, tier |-> tier, scroll |-> scroll, span |-> span,
        repeated |-> ~IsNull(lastPass) /\ Val(lastPass).chunkText = chunkText /\ Val(lastPass).anchors = anchors,
        after |-> IF IsNull(lastPass) THEN Null ELSE Val(lastPass).chunkText])

\* what a timer leaves alone
TimerFrame ==
  /\ UNCHANGED storeVars
  /\ UNCHANGED <<view, viewerDocId, viewMode, cleared, pdfLoading, iframeLoaded, pdfDocLoaded, pdfLayer>>
  /\ UNCHANGED <<docText, chunk, failing, currentPageText, viewerParsed, sidebarParsed, viewerPages>>

\* the marks of a pass over the text layer, and its record if it reached the layer
ApplyPdfPass(pass, chunkText) ==
  /\ pdfMarks' = pass.marks
  /\ lastPass' = IF PdfContainer /\ ~IsNull(TextLayer) THEN PassRecord("pdf", chunkText, Null, pass.method, pass.scroll, pass.span)
                 ELSE lastPass

\* DocumentViewer: setTimeout(highlightPdfText, 300) fires
ViewerPdfTimerFires ==
  /\ Surface = "viewer"
  /\ ~IsNull(pdfTimer)
  /\ ApplyPdfPass(ViewerHighlightPdfText(PdfContainer, TextLayer, pdfMarks, Val(pdfTimer).chunkText),
                  Val(pdfTimer).chunkText)
  /\ pdfTimer' = Null
  /\ UNCHANGED <<iframeDom, iframeTimer>>
  /\ TimerFrame

\* SourceSidebar: setTimeout(highlightPdfText, 300) fires
SidebarPdfTimerFires ==
  /\ Surface = "sidebar"
  /\ ~IsNull(pdfTimer)
  /\ ApplyPdfPass(SidebarHighlightPdfText(PdfContainer, TextLayer, pdfMarks, Val(pdfTimer).chunkText),
                  Val(pdfTimer).chunkText)
  /\ pdfTimer' = Null
  /\ UNCHANGED <<iframeDom, iframeTimer>>
  /\ TimerFrame

\* the document after a pass over the iframe, and the pass's record
ApplyIframePass(pass, closure) ==
  /\ iframeDom' = Some(pass.dom)
  /\ lastPass' = PassRecord("iframe", closure.chunkText, closure.anchors, pass.tier, pass.scroll, pass.span)

\* the callback of the iframe effect with the chunk text and anchors of its closure
IframePass(closure) ==
  ApplyIframePass(HighlightInIframe(Val(iframeDom), Val(closure.chunkText), closure.anchors), closure)

\* DocumentViewer: the timer of the iframe effect fires after 500 ms; before the
\* file has loaded the iframe holds an empty document
ViewerIframeTimerFires ==
  /\ Surface = "viewer"
  /\ ~IsNull(iframeTimer)
  /\ IF IsNull(IframeElement) \/ IsNull(iframeDom)
     THEN UNCHANGED <<iframeDom, lastPass>>
     ELSE IframePass(Val(iframeTimer))
  /\ iframeTimer' = Null
  /\ UNCHANGED <<pdfMarks, pdfTimer>>
  /\ TimerFrame

\* SourceSidebar: setTimeout(highlightInIframe, 100) fires
SidebarIframeTimerFires ==
  /\ Surface = "sidebar"
  /\ ~IsNull(iframeTimer)
  /\ IF ~Truthy(Val(iframeTimer).chunkText) \/ ~IsHtml \/ IsNull(IframeElement) \/ IsNull(iframeDom)
     THEN UNCHANGED <<iframeDom, lastPass>>
     ELSE IframePass(Val(iframeTimer))
  /\ iframeTimer' = Null
  /\ UNCHANGED <<pdfMarks, pdfTimer>>
  /\ TimerFrame

SessionNext ==
  \/ GoToQueries
  \/ \E d \in Documents : GoToDocument(d)
  \/ LeaveView
  \/ HandleBack
  \/ \E c \in UNION {DocChunks(d) : d \in Documents} : HandleChunkClick(c)
  \/ \E page \in 1..MaxPageInput : SetCurrentPage(page)
  \/ \E mode \in {"split", "pdf", "parsed", "rendered"} : SetViewMode(mode)
  \/ OnDocumentLoadSuccess
  \/ ViewerIframeLoads
  \/ \E source \in Sources : OpenSourceSidebar(source)
  \/ CloseSourceSidebar
  \/ HandleOpenFullView
  \/ \E mode \in {"parsed", "source"} : SetSidebarViewMode(mode)
  \/ \E page \in 1..MaxPageInput : SetSidebarPage(page)
  \/ OnPdfLoadSuccess
  \/ HandleIframeLoad
  \/ PageRendered
  \/ ViewerPdfTimerFires
  \/ SidebarPdfTimerFires
  \/ ViewerIframeTimerFires
  \/ SidebarIframeTimerFires

SpecSession == SessionInit /\ [][SessionNext]_vars

\* ------------------------------------------------------------------------
\* Properties of the parsed-text cascade (specification SpecCascade)
\* ------------------------------------------------------------------------

\* a chunk with a text is highlighted
ChunkActive == ~IsNull(highlightChunkText) /\ Val(highlightChunkText) # << >>

\* what the two parsed panes show
Panes == {viewerParsed, sidebarParsed}

\* the chunk text occurs in the text, white space runs aside
OccursVerbatim(text, chunkText) == chunkText # << >> /\ Includes(CollapseWhitespace(text), CollapseWhitespace(chunkText))

\* the text of every marked span of a pane
MarkedTexts(r) ==
  LET spans == MarkSpans(r.html)
  IN  {Slice(currentPageText, spans[k].start, spans[k].end) : k \in 1..Len(spans)}

\* C1: when a non-empty chunk text is highlighted with offsets 0 <= start < end <=
\* length of the page text, both panes return the exact-position result, the one
\* marked span is [start, end) and the text around the marks is the page text
C1_PositionTierExact ==
  (ChunkActive /\ ~IsNull(highlightChunkIdx))
    => LET idx == Val(highlightChunkIdx)
       IN  (0 <= idx.start /\ idx.start < idx.end /\ idx.end <= Len(currentPageText))
             => \A r \in Panes :
                  /\ r.method = "exact-position"
                  /\ MarkSpans(r.html) = <<[start |-> idx.start, end |-> idx.end]>>
                  /\ StripMarks(r.html) = currentPageText

\* C1 witness: valid offsets that do not hold the chunk text, on a page where the
\* exact-text tier would match as well, and the position tier has marked them
C1_Witness ==
  /\ ChunkActive
  /\ ~IsNull(highlightChunkIdx)
  /\ Val(highlightChunkIdx).start < Val(highlightChunkIdx).end
  /\ Val(highlightChunkIdx).end <= Len(currentPageText)
  /\ Slice(currentPageText, Val(highlightChunkIdx).start, Val(highlightChunkIdx).end) # Val(highlightChunkText)
  /\ PatMatches(FlexPattern(Val(highlightChunkText)), currentPageText) # << >>
  /\ sidebarParsed.method = "exact-position"
  /\ viewerParsed.method = "exact-position"

\* C2 as amended: when a chunk without offsets occurs in the page text, white space
\* runs aside, both panes return the exact-text (or prefix) result with at least one
\* mark, and every marked span equals the chunk text up to letter case and white
\* space runs
C2_VerbatimChunkMarked ==
  (ChunkActive /\ IsNull(highlightChunkIdx) /\ OccursVerbatim(currentPageText, Val(highlightChunkText)))
    => \A r \in Panes :
         /\ r.method \in {"exact-text", "prefix"}
         /\ MarkedTexts(r) # {}
         /\ \A m \in MarkedTexts(r) : CollapseWhitespace(ToLower(m)) = CollapseWhitespace(ToLower(Val(highlightChunkText)))

\* C2 as stated: ... some marked span equals the chunk text (white space runs aside)
C2_Original ==
  (ChunkActive /\ IsNull(highlightChunkIdx) /\ OccursVerbatim(currentPageText, Val(highlightChunkText)))
    => \A r \in Panes :
         /\ r.method \in {"exact-text", "prefix"}
         /\ \E m \in MarkedTexts(r) : CollapseWhitespace(m) = CollapseWhitespace(Val(highlightChunkText))

\* C2 witness: the chunk text occurs in the page only with other white space, and
\* the exact-text tier has marked it
C2_Witness ==
  /\ ChunkActive
  /\ IsNull(highlightChunkIdx)
  /\ OccursVerbatim(currentPageText, Val(highlightChunkText))
  /\ ~Includes(currentPageText, Val(highlightChunkText))
  /\ sidebarParsed.method = "exact-text"
  /\ Len(MarkSpans(sidebarParsed.html)) = 1

\* whether a tier, taken alone, produces a result for the highlighted chunk on the
\* page; the region tiers are those of the named component
TierSucceeds(tier, component) ==
  LET text == currentPageText
      chunkText == Val(highlightChunkText)
  IN  CASE tier = "exact-position" -> PositionApplies(text, highlightChunkIdx, DefaultPageStartOffset)
        [] tier = "exact-text" -> PatMatches(FlexPattern(chunkText), text) # << >>
        [] tier = "prefix" ->
             Len(chunkText) > PrefixLen /\ PatMatches(FlexPattern(Slice(chunkText, 0, PrefixLen)), text) # << >>
        [] tier = "word-overlay" -> WordTier(failing, text, chunkText).hasMatch
        [] tier = "fuzzy-region" ->
             IF component = "sidebar"
             THEN FindBestMatchingRegions(text, SidebarSignificantWords(chunkText)).kind \in {"sentences", "window"}
             ELSE ~IsNull(FindBestMatchingRegion(text, ViewerSignificantWords(chunkText)))
        [] tier = "default-head" ->
             component = "sidebar" /\ FindBestMatchingRegions(text, SidebarSignificantWords(chunkText)).kind = "head"

TierOrder == <<"exact-position", "exact-text", "prefix", "word-overlay", "fuzzy-region", "default-head">>

\* the first tier of the order that succeeds, or "none"
RECURSIVE FirstTierFrom(_, _)
FirstTierFrom(k, component) ==
  IF k > Len(TierOrder) THEN "none"
  ELSE IF TierSucceeds(TierOrder[k], component) THEN TierOrder[k]
  ELSE FirstTierFrom(k + 1, component)

\* the tier of the order a result came from, or "none"
TierOf(r) == IF \E k \in 1..Len(TierOrder) : TierOrder[k] = r.method THEN r.method ELSE "none"

C10_SpanInvariant ==
  \A r \in Panes :
    \A k \in 1..Len(MarkSpans(r.html)) :
      LET span == MarkSpans(r.html)[k]
      IN  0 <= span.start /\ span.start < span.end /\ span.end <= Len(currentPageText)

\* ------------------------------------------------------------------------
\* Properties of the highlight session (specification SpecSession)
\* ------------------------------------------------------------------------

\* the sentence that occurs twice in the HTML file
RepeatedSentence == <<"S","o","l","a","r"," ","p","a","n","e","l","s">>

\* the anchors that quote the sentences around its second occurrence
SecondOccurrenceAnchors == Some([prevAnchor |-> Some(<<"E","a","r","l","i","e","r"," ","n","o","t","e","s">>), nextAnchor |-> Some(<<"L","a","t","e","r"," ","p","a","g","e","s">>)])

\* the last pass ran over the iframe for the repeated sentence with those anchors
AnchoredPassDone ==
  /\ ~IsNull(lastPass)
  /\ Val(lastPass).path = "iframe"
  /\ Val(lastPass).chunkText = Some(RepeatedSentence)
  /\ Val(lastPass).anchors = SecondOccurrenceAnchors

\* C4 as stated: after a pass over the rendered tree for a sentence that occurs
\* twice, with anchors whose distinctive words surround the second occurrence only,
\* the element of the second occurrence (p3) is marked and the element of the first
\* (p1) is not
C4_SecondOccurrenceSelected ==
  AnchoredPassDone => ("p3" \in Val(iframeDom).marked /\ "p1" \notin Val(iframeDom).marked)

\* no mark in the text layer, in the iframe document or in a parsed pane
NoMarks ==
  /\ pdfMarks = {}
  /\ IsNull(iframeDom) \/ (Val(iframeDom).marked = {} /\ \A i \in 1..Len(Val(iframeDom).nodes) : Val(iframeDom).nodes[i].depth = 0)
  /\ MarkSpans(viewerParsed.html) = << >>
  /\ MarkSpans(sidebarParsed.html) = << >>
  /\ \A p \in 1..Len(viewerPages) : MarkSpans(viewerPages[p].html) = << >>

\* C5: from clearHighlight or closeSourceSidebar until the next chunk is selected,
\* and whenever no chunk is active, the highlight chunk text is null and no parsed
\* span, no span of the PDF text layer and no element of the iframe is marked
C5_NoMarksAfterClear ==
  /\ cleared => IsNull(highlightChunkText)
  /\ IsNull(highlightChunkText) => NoMarks

\* C5 witness: the highlight was cleared and the document was opened again, its
\* text layer is rendered and the parsed pane shows the page
C5_Witness ==
  /\ cleared
  /\ Surface = "viewer"
  /\ ~IsNull(pdfLayer)
  /\ viewMode = "split"
  /\ currentPageText # << >>

\* C6: a pass over the text layer or the iframe that runs with the chunk text and
\* anchors of the pass before it on the same DOM leaves the marks as they were and
\* ends in the same tier; the parsed panes stay as they are while the page text and
\* the highlight do not change
C6_Idempotent ==
  [][/\ (TimerFrame /\ ~IsNull(lastPass) /\ ~IsNull(lastPass') /\ Val(lastPass').repeated
           /\ (pdfTimer' # pdfTimer \/ iframeTimer' # iframeTimer))
        => /\ pdfMarks' = pdfMarks
           /\ iframeDom' = iframeDom
           /\ Val(lastPass').tier = Val(lastPass).tier
     /\ ParsedInputs' = ParsedInputs => UNCHANGED <<viewerParsed, sidebarParsed>>]_vars

\* C6 witness: the iframe has been marked by a pass that followed a pass with the
\* same chunk text and anchors
C6_Witness ==
  /\ ~IsNull(lastPass)
  /\ Val(lastPass).path = "iframe"
  /\ Val(lastPass).repeated
  /\ Val(iframeDom).marked # {}

\* C7 as stated: a pending pass belongs to the most recent request: the chunk text,
\* page and view mode its timer was set with are the current ones
C7_PendingPassIsLatest ==
  /\ ~IsNull(pdfTimer) => Val(pdfTimer) = PdfClosure
  /\ ~IsNull(iframeTimer) => Val(iframeTimer) = IframeClosure

\* the marks a pass leaves on an unmarked text layer
FreshPdfMarks(chunkText) ==
  IF Surface = "viewer" THEN ViewerHighlightPdfText(TRUE, TextLayer, {}, chunkText).marks
  ELSE SidebarHighlightPdfText(TRUE, TextLayer, {}, chunkText).marks

\* C8: after every pass the marks of the text layer, or the iframe document, are
\* those the pass leaves on the DOM without marks, whatever earlier passes marked
C8_OnlyLatestPassMarks ==
  ~IsNull(lastPass) =>
    IF Val(lastPass).path = "pdf"
    THEN pdfMarks = FreshPdfMarks(Val(lastPass).chunkText)
    ELSE Val(iframeDom) = HighlightInIframe(IframeBody(Doc), Val(Val(lastPass).chunkText), Val(lastPass).anchors).dom

\* C8 witness: a pass over the text layer has marked spans after a pass for another
\* chunk that had marked spans the later pass does not mark
C8_Witness ==
  /\ ~IsNull(lastPass)
  /\ Val(lastPass).path = "pdf"
  /\ ~IsNull(Val(lastPass).after)
  /\ Val(lastPass).after # Val(lastPass).chunkText
  /\ pdfMarks # {}
  /\ ~(FreshPdfMarks(Val(lastPass).after) \subseteq pdfMarks)

\* ------------------------------------------------------------------------
\* Further properties of the parsed-text cascade (specification SpecCascade)
\* ------------------------------------------------------------------------

\* the stored offsets of the highlighted chunk lie within the page text
OffsetsInRange ==
  /\ ~IsNull(highlightChunkIdx)
  /\ 0 <= Val(highlightChunkIdx).start
  /\ Val(highlightChunkIdx).start < Val(highlightChunkIdx).end
  /\ Val(highlightChunkIdx).end <= Len(currentPageText)

\* C11 as stated: when the offsets of the highlighted chunk lie within the page text
\* but the text between them is not the chunk text, and the chunk text occurs in the
\* page, every component marks occurrences of the chunk text and nothing else
C11_StaleOffsetsIgnored ==
  (/\ ChunkActive
   /\ OffsetsInRange
   /\ Slice(currentPageText, Val(highlightChunkIdx).start, Val(highlightChunkIdx).end) # Val(highlightChunkText)
   /\ Includes(currentPageText, Val(highlightChunkText)))
    => \A r \in Panes :
         /\ MarkedTexts(r) # {}
         /\ \A m \in MarkedTexts(r) : m = Val(highlightChunkText)

\* where the second "The quick brown fox" of the example page starts
SecondFoxOffset == IndexOfFrom(FoxPage, <<"T","h","e"," ","q","u","i","c","k"," ","b","r","o","w","n"," ","f","o","x">>, 1)

\* C12 as stated: for the example page and the chunk "quick brown fox" without
\* offsets, each component returns the exact-text or the fuzzy-region result, and
\* every marked span lies in the second occurrence and contains the chunk text
C12_SecondOccurrenceExample ==
  (ChunkActive /\ currentPageText = FoxPage /\ Val(highlightChunkText) = FoxChunk /\ IsNull(highlightChunkIdx))
    => \A r \in Panes :
         /\ r.method \in {"exact-text", "fuzzy-region"}
         /\ MarkSpans(r.html) # << >>
         /\ \A k \in 1..Len(MarkSpans(r.html)) :
              /\ MarkSpans(r.html)[k].start >= SecondFoxOffset
              /\ Includes(Slice(currentPageText, MarkSpans(r.html)[k].start, MarkSpans(r.html)[k].end), FoxChunk)


\* the chunk text is one cut off upstream: of its 150 characters the first 80 occur
\* in the page text and the first 81 do not
TruncationCase ==
  /\ ChunkActive
  /\ IsNull(highlightChunkIdx)
  /\ Len(Val(highlightChunkText)) = 150
  /\ Includes(currentPageText, Slice(Val(highlightChunkText), 0, 80))
  /\ ~Includes(currentPageText, Slice(Val(highlightChunkText), 0, 81))

\* C13 as stated: for a chunk text of 150 characters of which only the first 80 occur
\* in the page text, and no offsets, each component returns the prefix result
C13_Original == TruncationCase => \A r \in Panes : r.method = "prefix"

\* C13 as amended: when the position tier does not apply, the chunk text of more than
\* 100 characters matches nowhere in the page text and its first 100 characters occur
\* there (white space runs aside), each component returns the prefix result and every
\* marked span is those 100 characters, letter case and white space runs aside
C13_PrefixTier ==
  (/\ ChunkActive
   /\ ~PositionApplies(currentPageText, highlightChunkIdx, DefaultPageStartOffset)
   /\ Len(Val(highlightChunkText)) > PrefixLen
   /\ PatMatches(FlexPattern(Val(highlightChunkText)), currentPageText) = << >>
   /\ OccursVerbatim(currentPageText, Slice(Val(highlightChunkText), 0, PrefixLen)))
    => \A r \in Panes :
         /\ r.method = "prefix"
         /\ MarkedTexts(r) # {}
         /\ \A m \in MarkedTexts(r) :
              CollapseWhitespace(ToLower(m)) = CollapseWhitespace(ToLower(Slice(Val(highlightChunkText), 0, PrefixLen)))

\* C13 witness: a chunk text of more than 100 characters that is not in the page text,
\* and both components have returned the prefix result with one mark
C13_Witness ==
  /\ ChunkActive
  /\ Len(Val(highlightChunkText)) > PrefixLen
  /\ ~Includes(currentPageText, Val(highlightChunkText))
  /\ \A r \in Panes : r.method = "prefix" /\ Len(MarkSpans(r.html)) = 1

\* the significant words the chunk text and the page text have in common
SharedSignificantWords == SidebarSignificantWords(Val(highlightChunkText)) \cap SidebarSignificantWords(currentPageText)

\* no sentence of the page text reaches the minimum score
NoSentenceReaches ==
  TopSentencesOf(SentenceScores(SplitIntoSentences(currentPageText), SidebarSignificantWords(Val(highlightChunkText))),
                 MinScore(SidebarSignificantWords(Val(highlightChunkText)))) = << >>

\* no window of the page text has a score above 0
NoWindowScores ==
  \A k \in 1..SidebarWindowCount(Len(currentPageText)) :
    SidebarWindowScores(currentPageText, SidebarSignificantWords(Val(highlightChunkText)))[k] = 0

\* the one mark of the default-head result
HeadSpan == <<[start |-> 0, end |-> Min2(DefaultHeadLen, Len(currentPageText))]>>

C16_EmptyShortCircuit ==
  (IsNull(highlightChunkText) \/ Val(highlightChunkText) = << >> \/ currentPageText = << >>)
    => \A r \in Panes : r.method = "unmatched" /\ r.html = currentPageText /\ MarkSpans(r.html) = << >>

\* C16 witness: a chunk with a significant word is highlighted with offsets while the
\* page text is empty, and both components have returned the text
C16_Witness ==
  /\ ChunkActive
  /\ ~IsNull(highlightChunkIdx)
  /\ SidebarSignificantWords(Val(highlightChunkText)) # {}
  /\ currentPageText = << >>
  /\ \A r \in Panes : r.method = "unmatched" /\ r.html = << >>

\* C20 as stated: when a component returns the exact-text result, exactly one span is
\* marked and it is the first match of the chunk text in the page text
C20_FirstMatchWins ==
  \A r \in Panes :
    (ChunkActive /\ r.method = "exact-text")
      => /\ Len(MarkSpans(r.html)) = 1
         /\ MarkSpans(r.html)[1] = PatMatches(FlexPattern(Val(highlightChunkText)), currentPageText)[1]


\* ------------------------------------------------------------------------
\* The cascade when a pattern cannot be constructed or evaluated
\* ------------------------------------------------------------------------

\* the strings highlightTextInContent builds a pattern from: the chunk text, its
\* first 100 characters and its words of 3 and more characters
PatternSources(chunkText) ==
  {chunkText}
    \cup (IF Len(chunkText) > PrefixLen THEN {Slice(chunkText, 0, PrefixLen)} ELSE {})
    \cup {ChunkWords(chunkText)[k] : k \in 1..Len(ChunkWords(chunkText))}

\* at most this many of a chunk's patterns throw
MaxFailing == 2

\* the pages and the chunk texts of the runs with failing patterns
FailingPages == {FoxPage} \cup TextPieces \cup {Lorem \o s : s \in TextPieces}

FailingChunks ==
  {FoxChunk} \cup {p \o q : p \in {Lorem, <<"f","o","x"," ">>, <<"q","u","i","c","k"," ">>}, q \in ChunkPieces \cup {<< >>}}

FailingInit ==
  /\ docText \in FailingPages
  /\ chunk \in [text : FailingChunks, idx : {Null}]
  /\ failing \in {f \in SUBSET PatternSources(chunk.text) : Cardinality(f) <= MaxFailing}
  /\ currentPageText = << >>
  /\ highlightChunkText = Null
  /\ highlightChunkIdx = Null
  /\ viewerParsed = Unmatched(<< >>)
  /\ sidebarParsed = Unmatched(<< >>)
  /\ SessionIdle

SpecFailing == FailingInit /\ [][CascadeNext]_vars

\* the tier of a result is one whose pattern did not throw
FromSoundTier(r) ==
  /\ r.method = "exact-text" => Val(highlightChunkText) \notin failing
  /\ r.method = "prefix" => Slice(Val(highlightChunkText), 0, PrefixLen) \notin failing
  /\ r.method \in {"word-overlay", "any-word"} => \A m \in MarkedTexts(r) : ToLower(m) \notin failing

\* C15: when patterns throw, each component still returns the page text, with or
\* without marks; its result is not that of a tier whose pattern threw and no
\* word whose pattern threw is marked; and when the pattern of the whole chunk text
\* throws the tiers after it are tried: the prefix tier returns if its pattern
\* matches, and else the word tier if a word of the chunk is found
C15_FailureStaysInTier ==
  (ChunkActive /\ ~PositionApplies(currentPageText, highlightChunkIdx, DefaultPageStartOffset))
    => \A r \in Panes :
         /\ StripMarks(r.html) = currentPageText
         /\ FromSoundTier(r)
         /\ Val(highlightChunkText) \in failing
              => /\ TierSucceeds("prefix", "sidebar") /\ Slice(Val(highlightChunkText), 0, PrefixLen) \notin failing
                   => r.method = "prefix"
                 /\ ~TierSucceeds("prefix", "sidebar") /\ TierSucceeds("word-overlay", "sidebar")
                   => r.method = "word-overlay"

\* C15 witness: the pattern of the chunk text throws on a page where it would match,
\* and both components have returned the word tier's result
C15_Witness ==
  /\ ChunkActive
  /\ Val(highlightChunkText) \in failing
  /\ OccursVerbatim(currentPageText, Val(highlightChunkText))
  /\ \A r \in Panes : r.method = "word-overlay" /\ StripMarks(r.html) = currentPageText

\* ------------------------------------------------------------------------
\* The store's highlight fields across page changes, documents and loading
\* ------------------------------------------------------------------------

\* the highlight fields of the store are empty
HighlightEmpty == IsNull(highlightChunkText) /\ IsNull(highlightChunkIdx) /\ IsNull(highlightAnchors)

\* C17 as stated: the highlight fields are empty after clearHighlight,
\* closeSourceSidebar, setCurrentPage and setSidebarPage
C17_ResetOnPageChange ==
  [][(\/ HandleBack
      \/ CloseSourceSidebar
      \/ \E page \in 1..MaxPageInput : SetCurrentPage(page)
      \/ \E page \in 1..MaxPageInput : SetSidebarPage(page)) => HighlightEmpty']_vars

\* C19 as stated: a component that shows a mark shows it for a chunk of the document
\* on display: the highlight chunk text is the text of one of that document's chunks
C19_NoForeignHighlight ==
  (Surface # "none" /\ ~NoMarks) => \E c \in DocChunks(Doc) : highlightChunkText = Some(c.text)

\* what only the user's handlers change: the store, the route and the view mode
userVars == <<storeVars, view, viewerDocId, viewMode>>

\* the loads complete and the timers fire. Each timer action is enabled exactly while
\* its timer is pending and leaves the timer null, so its weak fairness is: the
\* timer is null again and again. The user stops acting at some point: from then on
\* only loads and timers take steps
SessionFairness ==
  /\ WF_vars(OnDocumentLoadSuccess)
  /\ WF_vars(ViewerIframeLoads)
  /\ WF_vars(OnPdfLoadSuccess)
  /\ WF_vars(HandleIframeLoad)
  /\ WF_vars(PageRendered)
  /\ []<>IsNull(pdfTimer)
  /\ []<>IsNull(iframeTimer)
  /\ <>[][UNCHANGED userVars]_vars

SpecSessionLive == SessionInit /\ [][SessionNext]_vars /\ SessionFairness

\* a chunk is active and an iframe or a PDF document is mounted for it
AwaitsPass == Truthy(highlightChunkText) /\ (~IsNull(IframeElement) \/ ~IsNull(PdfElement))

\* a pass with the active chunk has run over the loaded content that is on display
PassRanOnView == ~IsNull(lastPass) /\ Val(lastPass).chunkText = highlightChunkText

\* C18 as stated: whenever a chunk is active and an iframe or a PDF document is on
\* display, a pass with that chunk eventually runs over the loaded content, unless
\* the chunk is cleared or the view is left first
C18_PassFollowsLoad == AwaitsPass ~> (PassRanOnView \/ ~AwaitsPass)
\* ------------------------------------------------------------------------
\* The parsed view of a document of several pages
\* ------------------------------------------------------------------------

\* the pages of the parsed view that the position tier marked
PositionPages == {p \in 1..Len(viewerPages) : viewerPages[p].method = "exact-position"}

\* the pages of the parsed view that carry a mark
MarkedPages == {p \in 1..Len(viewerPages) : MarkSpans(viewerPages[p].html) # << >>}

\* the chunks of the open document that the store's highlight was taken from
ActiveChunks ==
  {c \in DocChunks(Doc) : highlightChunkText = Some(c.text) /\ highlightChunkIdx = c.idx}

\* C21: in the parsed view of a document of several pages the position tier marks
\* at most one page, the page of the chunk, and no other page carries a mark
C21_PositionOnOnePage ==
  (Surface = "viewer" /\ viewMode = "parsed" /\ Len(viewerPages) > 1 /\ PositionPages # {})
    => /\ Cardinality(PositionPages) = 1
       /\ MarkedPages = PositionPages
       /\ \A c \in ActiveChunks : ~IsNull(c.page) => PositionPages = {Val(c.page)}
\* ------------------------------------------------------------------------
\* The text layer of a PDF page
\* ------------------------------------------------------------------------

\* the spans that overlap the place where the text occurs in the page's flat text
SpansOfOccurrence(spans, fullTextLower, text) ==
  IF IndexOf(fullTextLower, text) = -1 THEN {}
  ELSE OverlappingSpans(spans, IndexOf(fullTextLower, text), IndexOf(fullTextLower, text) + Len(text))

\* the spans that overlap an exact-text match or, for a search text of more than 100
\* characters, a match of its first 100 characters
PdfTierSpans(spans, searchText) ==
  SpansOfOccurrence(spans, ToLower(ConcatAll(spans)), searchText)
    \cup (IF Len(searchText) > PdfPrefixLen
          THEN SpansOfOccurrence(spans, ToLower(ConcatAll(spans)), Slice(searchText, 0, PdfPrefixLen))
          ELSE {})

\* a pass over the text layer on display ran its search
PdfPassSearched ==
  /\ ~IsNull(lastPass)
  /\ Val(lastPass).path = "pdf"
  /\ Val(lastPass).tier # "none"
  /\ ~IsNull(TextLayer)

\* C22: after a pass over the text layer of a PDF page, a span is marked only if it
\* overlaps an exact-text match or a match of the first 100 characters of the chunk
\* the pass ran with; when neither occurs no span of the page is marked
C22_PdfExactOrPrefixOnly ==
  PdfPassSearched => pdfMarks \subseteq PdfTierSpans(Val(TextLayer), PdfSearchText(Val(Val(lastPass).chunkText)))
\* ------------------------------------------------------------------------
\* The pass over the rendered tree on its own: a loaded iframe document, a chunk
\* and its anchors in the closure of the effect's timer
\* ------------------------------------------------------------------------

\* the elements of the body, one for each text node
TreeElems == <<"p1", "p2", "p3", "p4", "p5">>

\* the body whose text nodes have the given texts; range.surroundContents throws in
\* the elements of the set
TreeBody(texts, throwing) ==
  [nodes |-> [i \in 1..Len(texts) |-> [text |-> texts[i], elem |-> TreeElems[i], depth |-> 0]],
   marked |-> {},
   unwrappable |-> throwing]

\* the texts of the text nodes
TreePieces == {<<"A","n"," ","o","l","d">>, <<"s","o","l","a","r"," ","p","a","n","e","l">>, <<"E","a","r","l","i","e","r"," ","n","o","t","e","s">>, <<" ","\n">>}

\* the largest number of text nodes of a generated body
MaxTreeNodes == 3

\* the bodies of up to MaxTreeNodes text nodes
TreeBodies ==
  UNION {{TreeBody(texts, throwing) : texts \in [1..n -> TreePieces], throwing \in {{}, {TreeElems[1]}}} :
           n \in 1..MaxTreeNodes}

\* the chunk texts
TreeChunks == {<<"A","n"," ","o","l","d"," ","s","o","l","a","r"," ","p","a","n","e","l">>, <<"s","o","l","a","r"," ","p","a","n","e","l">>, <<"n","o","t","e","s">>, <<"E","a","r","l","i","e","r"," "," ","n","o","t","e","s">>}

\* the anchors
TreeAnchors == {Null, Some([prevAnchor |-> Some(<<"A","n"," ","o","l","d"," ","s","o","l","a","r"," ","p","a","n","e","l">>), nextAnchor |-> Null])}

\* a text node of sixty characters, and a chunk that agrees with it on its first
\* fifty characters and is one character longer
LongNode == <<"S","o","l","a","r"," ","p","a","n","e","l","s"," ","c","o","n","v","e","r","t"," ","l","i","g","h","t"," ","i","n","t","o"," ","p","o","w","e","r"," ","o","n"," ","e","v","e","r","y"," ","s","i","n","g","l","e"," ","r","o","o","f","."," ">>

LongChunk == <<"S","o","l","a","r"," ","p","a","n","e","l","s"," ","c","o","n","v","e","r","t"," ","l","i","g","h","t"," ","i","n","t","o"," ","p","o","w","e","r"," ","o","n"," ","e","v","e","r","y"," ","s","i","n","g","l","e"," ","r","o","o","f","t","o","p">>

\* a body in which two words of the chunk stand at the start and the first word of
\* the chunk stands more than CandidateWindow characters further on
FarBody ==
  TreeBody(<< <<"p","a","n","e","l"," ","r","o","o","f">>, [i \in 1..CandidateWindow |-> "x"], <<"s","o","l","a","r"," ","r","o","o","f">> >>, {})

FarChunk == <<"s","o","l","a","r"," ","p","a","n","e","l"," ","r","o","o","f">>

TreeExamples ==
  { [body |-> TreeBody(<< LongNode, <<"E","a","r","l","i","e","r"," ","n","o","t","e","s">> >>, {}), chunkText |-> LongChunk, anchors |-> Null],
    [body |-> FarBody, chunkText |-> FarChunk, anchors |-> Null] }

TreeInit ==
  /\ \/ \E b \in TreeBodies, c \in TreeChunks, a \in TreeAnchors :
          /\ iframeDom = Some(b)
          /\ highlightChunkText = Some(c)
          /\ highlightAnchors = a
     \/ \E e \in TreeExamples :
          /\ iframeDom = Some(e.body)
          /\ highlightChunkText = Some(e.chunkText)
          /\ highlightAnchors = e.anchors
  /\ iframeTimer = Some([chunkText |-> highlightChunkText, anchors |-> highlightAnchors])
  /\ docText = << >>
  /\ chunk = [text |-> << >>, idx |-> Null]
  /\ failing = {}
  /\ currentPageText = << >>
  /\ highlightChunkIdx = Null
  /\ viewerParsed = Unmatched(<< >>)
  /\ sidebarParsed = Unmatched(<< >>)
  /\ viewerPages = << >>
  /\ view = "list"
  /\ viewerDocId = Null
  /\ sidebarDocId = Null
  /\ currentPage = 1
  /\ sidebarPage = 1
  /\ sidebarViewMode = "parsed"
  /\ viewMode = "split"
  /\ pdfLoading = TRUE
  /\ iframeLoaded = FALSE
  /\ pdfDocLoaded = FALSE
  /\ pdfLayer = Null
  /\ pdfMarks = {}
  /\ pdfTimer = Null
  /\ lastPass = Null
  /\ cleared = FALSE

\* what the pass and the renewal of its timer leave alone
TreeFrame ==
  /\ UNCHANGED <<docText, chunk, failing, currentPageText, highlightChunkText, highlightChunkIdx, highlightAnchors>>
  /\ UNCHANGED <<viewerParsed, sidebarParsed, viewerPages, view, viewerDocId, sidebarDocId, currentPage, sidebarPage>>
  /\ UNCHANGED <<sidebarViewMode, viewMode, pdfLoading, iframeLoaded, pdfDocLoaded, pdfLayer, pdfMarks, pdfTimer, cleared>>

\* the timer of the effect fires: the pass runs with the chunk text and the anchors
\* of its closure
TreeTimerFires ==
  /\ ~IsNull(iframeTimer)
  /\ IframePass(Val(iframeTimer))
  /\ iframeTimer' = Null
  /\ TreeFrame

\* the chunk is selected again: the store gets a new anchors object, the effect runs
\* again and sets its timer
TreeChunkClick ==
  /\ IsNull(iframeTimer)
  /\ iframeTimer' = Some([chunkText |-> highlightChunkText, anchors |-> highlightAnchors])
  /\ UNCHANGED <<iframeDom, lastPass>>
  /\ TreeFrame

TreeNext ==
  \/ TreeTimerFires
  \/ TreeChunkClick

SpecTree == TreeInit /\ [][TreeNext]_vars

\* ---- the pass's outcome ----

\* a pass has run over the document on display
TreePassDone == ~IsNull(lastPass) /\ ~IsNull(iframeDom) /\ Val(lastPass).path = "iframe"

\* the text nodes of the document that carry a mark: in a highlight span or in an
\* element with the class sourcemapr-highlight-parent
MarkedNodes(dom) ==
  {i \in 1..Len(dom.nodes) : dom.nodes[i].depth > 0 \/ dom.nodes[i].elem \in dom.marked}

\* C23: when range.surroundContents throws in the fallback within a single text
\* node, the element of that text node is marked and is the one scrolled into view
C23_WrapFailureMarksFragment ==
  (TreePassDone /\ Val(lastPass).tier = "single-node-caught")
    => /\ MarkedNodes(Val(iframeDom)) # {}
       /\ \E i \in MarkedNodes(Val(iframeDom)) : Val(lastPass).scroll = Some(ParentOf(Val(iframeDom).nodes[i]))

\* the items of the walk over the document on display and their starts in the flat
\* string
ShownItems == WalkItems(Val(iframeDom).nodes, TextNodes(Val(iframeDom)))

\* the items whose element carries the class sourcemapr-highlight-parent
MarkedItems(items) ==
  {k \in 1..Len(items) : ParentOf(Val(iframeDom).nodes[items[k].node]) \in Val(iframeDom).marked}

\* the item's range [start, end) has a character in common with the span
Intersects(items, startOf, k, span) ==
  startOf[k] < span.end /\ startOf[k] + Len(items[k].text) > span.start

\* C24: after a pass that located the chunk's span in the flat string, every marked
\* text node has a range with a non-empty intersection with that span
C24_MarkedIntersectSpan ==
  (TreePassDone /\ ~IsNull(Val(lastPass).span))
    => \A k \in MarkedItems(ShownItems) : Intersects(ShownItems, ItemStarts(ShownItems), k, Val(Val(lastPass).span))

\* C25: whenever a pass leaves marks, what it scrolled into view is the first marked
\* text node in document order
C25_ScrollToFirstMarked ==
  (TreePassDone /\ MarkedNodes(Val(iframeDom)) # {})
    => Val(lastPass).scroll = Some(ParentOf(Val(iframeDom).nodes[SetMin(MarkedNodes(Val(iframeDom)))]))

\* ---- the index of the build phase ----

\* the items of the walk over the document without its highlights, as a pass builds
\* them
CleanItems(dom) == WalkItems(RemoveHighlights(dom).nodes, TextNodes(RemoveHighlights(dom)))

\* the flat string holds every item's text at its start, one separator lies between
\* an item's end and the next item's start, and the lookup of an offset within an
\* item finds that item
IndexSound(items, startOf, full) ==
  /\ \A k \in 1..Len(items) : Slice(full, startOf[k], startOf[k] + Len(items[k].text)) = items[k].text
  /\ \A k \in 1..(Len(items) - 1) : startOf[k + 1] = startOf[k] + Len(items[k].text) + 1
  /\ \A k \in 1..Len(items) :
       \A p \in startOf[k]..(startOf[k] + Len(items[k].text) - 1) : NodeAtOffset(items, startOf, p) = k

\* C28: for the index a pass builds over the document, the substring [start, end) of
\* the flat string is the text of the fragment, the next fragment starts one
\* separator after the end, and an offset inside a fragment's range is looked up to
\* that fragment
C28_IndexSound ==
  ~IsNull(iframeDom)
    => IndexSound(CleanItems(Val(iframeDom)), ItemStarts(CleanItems(Val(iframeDom))),
                  FullConcatenatedText(CleanItems(Val(iframeDom))))

\* a pass has run over a document of several fragments, one of them after a text
\* node of white space that the walk leaves out
C28_Witness ==
  /\ TreePassDone
  /\ Len(CleanItems(Val(iframeDom))) > 1
  /\ Len(CleanItems(Val(iframeDom))) < Len(Val(iframeDom).nodes)

\* ---- the candidates of the anchor search ----

\* the candidates a pass scores: the occurrences of the chunk's first distinctive
\* words in the flat string
ScoredOf(fullLower, chunkWords, anchors) ==
  ScoreCandidates(fullLower, chunkWords, PrevAnchorWords(anchors), NextAnchorWords(anchors),
                  CandidateScan(fullLower, Slice(chunkWords, 0, CandidateWordLimit), 1, 0, << >>))

\* no candidate has a higher score than the chosen one, and none with the same
\* scores starts before it
EarliestOfBest(scored, best) ==
  best # -1 =>
    \A c \in 1..Len(scored) :
      /\ ~SortsBefore(scored[c], scored[best])
      /\ ~SortsBefore(scored[best], scored[c]) => scored[best].pos <= scored[c].pos

\* C26: the candidate position a pass chooses has the highest context score and
\* chunk score, and among candidates with equal scores the smallest start offset
C26_EarliestCandidate ==
  TreePassDone
    => EarliestOfBest(ScoredOf(ToLower(FullConcatenatedText(CleanItems(Val(iframeDom)))),
                               GetDistinctiveWords(Trim(CollapseWhitespace(Val(Val(lastPass).chunkText)))),
                               Val(lastPass).anchors),
                      BestCandidate(ScoredOf(ToLower(FullConcatenatedText(CleanItems(Val(iframeDom)))),
                               GetDistinctiveWords(Trim(CollapseWhitespace(Val(Val(lastPass).chunkText)))),
                               Val(lastPass).anchors)))
\* ------------------------------------------------------------------------
\* The text under the marks
\* ------------------------------------------------------------------------

\* the stored offsets, if any, are in order
OffsetsOrdered == IsNull(highlightChunkIdx) \/ Val(highlightChunkIdx).start <= Val(highlightChunkIdx).end

\* C27: whatever tier marks, the markup of a parsed pane without its mark tags is
\* the page text: no character is dropped, duplicated or taken from a tag inserted
\* earlier in the same pass
C27_MarkingPreservesText ==
  OffsetsOrdered => \A r \in Panes : StripMarks(r.html) = currentPageText
\* ------------------------------------------------------------------------
\* The store action openSourceSidebar, and the badge of the components
\* ------------------------------------------------------------------------

\* C29: openSourceSidebar keeps the view mode of an open sidebar and sets 'parsed'
\* for a closed one; it sets the sidebar's document and page, replaces the
\* highlight fields by its arguments (null for those left out) and changes no other
\* field of the store
C29_OpenSourceSidebarFrame ==
  [][\A source \in Sources :
       OpenSourceSidebar(source) =>
         /\ sidebarViewMode' = IF IsNull(sidebarDocId) THEN "parsed" ELSE sidebarViewMode
         /\ sidebarDocId' = Some(source.doc)
         /\ sidebarPage' = source.page
         /\ highlightChunkText' = source.text
         /\ highlightChunkIdx' = Null
         /\ highlightAnchors' = Null
         /\ currentPage' = currentPage]_vars

\* the sidebar shows the PDF in its source view with the chunk of page 2, which the
\* parsed view it opens with does not offer before setSidebarViewMode
C29_Witness ==
  /\ Surface = "sidebar"
  /\ sidebarViewMode = "source"
  /\ sidebarDocId = Some("report.pdf")
  /\ sidebarPage = 2
  /\ highlightChunkText = Some(<<"h","o","l","d"," ","p","o","w","e","r">>)
  /\ pdfLoading
  /\ IsNull(lastPass)

\* the badge "Chunk Highlighted" of DocumentViewer: in the bar of the page buttons
\* and in the header of the pdf, rendered and parsed views; the badge "Highlighted"
\* of SourceSidebar: in its header
BadgeShown ==
  /\ Truthy(highlightChunkText)
  /\ \/ Surface = "sidebar"
     \/ Surface = "viewer" /\ viewMode \in {"pdf", "rendered", "parsed"}
     \/ Surface = "viewer" /\ viewMode = "split" /\ TotalPages > 1

\* no load and no pass is pending in the mounted component
Settled ==
  /\ IsNull(pdfTimer)
  /\ IsNull(iframeTimer)
  /\ IsNull(PdfElement) \/ (pdfDocLoaded /\ pdfLayer = Some(SafePage) /\ ~pdfLoading)
  /\ IsNull(IframeElement) \/ ~IsNull(iframeDom)

\* C30: once the loads and passes of the view are done, the badge is shown only if
\* the view carries a mark
C30_BadgeOnlyWithMark ==
  (BadgeShown /\ Settled) => ~NoMarks
====
